---- MODULE Spec2Model ----
(***************************************************************************)
(* A model of the LDD node store (ldd/src/storage.rs), its protection set  *)
(* (ldd/src/storage/ldd.rs), its operation cache (ldd/src/storage/cache.rs) *)
(* and the recursive set operations (ldd/src/operations.rs).                *)
(*                                                                         *)
(* Indices are those of the code (0-based): slot i of the node table is    *)
(* table[i+1], root slot r of the protection set is roots[r+1].            *)
(* Option<usize> is an integer, None being -1.                             *)
(*                                                                         *)
(* The operations are functions on a store record `s` (one field per field *)
(* of Storage, plus the abort flag and three observation flags); an action *)
(* applies one whole call to the store of the current state.               *)
(*                                                                         *)
(* Left out: Node.hash (written by insert, read by nothing),               *)
(* ProtectionSet.number_of_insertions and enable_performance_metrics       *)
(* (metrics only).                                                         *)
(***************************************************************************)
EXTENDS Integers, Sequences, FiniteSets, TLC

\* ------------------------------------------------------------------ bounds

\* The largest length of the node table, the two terminals included.
MaxTable == 5
\* The largest number of handles the client holds at once.
MaxHandles == 3
\* The largest value of a node.
MaxValue == 1
\* The longest vector the client passes to singleton.
MaxLen == 2
\* The largest number of calls the client makes.
MaxSteps == 6
\* The longest list of indices the client passes to compute_proj and compute_meta.
MaxIndices == 1
\* Storage::new sets count_until_collection to 10000 (storage.rs:112); the
\* model starts the countdown at this scaled-down budget.
InitialCount == 2

\* The calls of a client that inspects.
MaxReadSteps == 5
\* The most vectors a test puts into one set.
MaxSet == 4
\* The most slots the node table of a test grows to.
MaxNodes == 64
\* The largest index a test passes to compute_proj and compute_meta.
MaxIndex == 2
\* The longest list of indices a test passes to them.
MaxList == 3
\* The largest set and the largest relation of a test of relational_product.
MaxRelSet == 2
\* The largest initial set and the largest relation in the file of the driver.
MaxInitial == 1
MaxRelation == 1
\* The largest number of transition groups in the file and of indices in them.
MaxGroups == 2
MaxFileIndices == 3
\* The largest number of iterations of the loop of the driver that are followed.
MaxIterations == 5

\* ------------------------------------------------------------- the state

VARIABLES
    table,      \* Storage.table: the nodes, [value, down, right, filled]
    free,       \* Storage.free: head of the node freelist, or None
    roots,      \* ProtectionSet.roots: [value, valid]
    ps_free,    \* ProtectionSet.free: head of the root freelist, or None
    count_until_collection,
    enable_garbage_collection,
    cache,      \* OperationCache: [c1, union, minus, c3], each a set of
                \* <<key, result>>, and nodes (see EmptyCache)
    handles,    \* the root slots of the handles the client owns
    debug,      \* the build has debug assertions (debug_assert! is checked)
    panicked,   \* a call has aborted
    flags,      \* observations so far: [read_freed, insert_freed, misused]
    steps,      \* the number of calls the client has made
    last        \* what the last call ran: "safepoint" (a collection inside
                \* insert), "skipped" (an insert found the counter at zero
                \* with collection disabled), "garbage_collect" (the
                \* client's call) or "none"
VARIABLE
    test        \* the test a run of the operation tests makes: its inputs
                \* and, once it has run, what it observed (see NoTest)

vars == <<table, free, roots, ps_free, count_until_collection,
          enable_garbage_collection, cache, handles, debug, panicked, flags, steps, last,
          test>>

\* Option::None of `free` (Storage and ProtectionSet).
None == -1
\* The index of 'false', Storage::empty_set.
empty_set == 0
\* The index of 'true', Storage::empty_vector.
empty_vector == 1

Values == 0..MaxValue

\* ----------------------------------------------------------- node table

\* Node::new: a filled node (marked is false outside garbage_collect).
NewNode(value, down, right) ==
    [value |-> value, down |-> down, right |-> right, filled |-> TRUE]

\* table[i] of the code.
At(t, i) == t[i + 1]

\* table[i] = node of the code.
Put(t, i, node) == [t EXCEPT ![i + 1] = node]

Indices(t) == 0..(Len(t) - 1)

\* Node::is_valid
is_valid(t, i) == At(t, i).filled

\* ------------------------------------------------------------ the store

\* OperationCache::new, and OperationCache::clear: caches1[0], the two of
\* caches2 and caches3[0], empty. `nodes` is an observation, not a field of the
\* code: <<i, node>> for every identity i the caches hold, node being what
\* slot i held when the operation that was cached met it.
EmptyCache == [c1 |-> {}, union |-> {}, minus |-> {}, c3 |-> {}, nodes |-> {}]

\* The store of the current state. `ovf` is set by a call that would grow the
\* table beyond MaxTable (such a call is not taken), `gc` by a call that
\* runs garbage_collect, `skipped` by an insert that finds the counter at
\* zero with collection disabled; read_freed and
\* insert_freed record that a call inspected a slot that is not filled, or
\* passed one to insert; misused that the client passed insert a triple
\* outside its contract.
Store ==
    [table |-> table, free |-> free, roots |-> roots, ps_free |-> ps_free,
     count |-> count_until_collection, enable |-> enable_garbage_collection,
     cache |-> cache, debug |-> debug, panic |-> panicked, ovf |-> FALSE,
     gc |-> FALSE, skipped |-> FALSE, cap |-> MaxTable,
     read_freed |-> flags.read_freed, insert_freed |-> flags.insert_freed,
     misused |-> flags.misused]

Panic(s) == [s EXCEPT !.panic = TRUE]

Stopped(s) == s.panic \/ s.ovf

\* `let x = ...;` followed by the statements F that use x. The test on x
\* makes x a value before F starts, as the statement order of the code does.
Then(x, F(_)) == IF x = x THEN F(x) ELSE F(x)

\* ------------------------------------------------------- protection set

\* ProtectionSet::protect without the write to the slot it reuses.
protectForgetsReuse(s, index) ==
    IF s.ps_free = None
    THEN [s |-> [s EXCEPT !.roots = Append(@, [value |-> index, valid |-> TRUE])],
          root |-> Len(s.roots)]
    ELSE LET first == s.ps_free
             next == s.roots[first + 1]
         IN [s |-> [s EXCEPT !.ps_free = IF first = next.value THEN None ELSE next.value],
             root |-> first]

\* ProtectionSet::protect: the root slot that now protects `index`.
protect(s, index) ==
    IF s.ps_free = None
    THEN [s |-> [s EXCEPT !.roots = Append(@, [value |-> index, valid |-> TRUE])],
          root |-> Len(s.roots)]
    ELSE LET first == s.ps_free
             next == s.roots[first + 1]
         IN [s |-> [s EXCEPT !.ps_free = IF first = next.value THEN None ELSE next.value,
                             !.roots[first + 1] = [value |-> index, valid |-> TRUE]],
             root |-> first]

\* ProtectionSet::unprotect that links every freed slot to itself.
unprotectSelfLinks(s, root) ==
    [s EXCEPT !.roots[root + 1] = [value |-> root, valid |-> FALSE],
              !.ps_free = root]

\* ProtectionSet::unprotect
unprotect(s, root) ==
    [s EXCEPT !.roots[root + 1] =
                  [value |-> IF s.ps_free = None THEN root ELSE s.ps_free,
                   valid |-> FALSE],
              !.ps_free = root]

\* ProtectionSet::iter with a loop that stops one slot short of the end.
RootNodesSkipLast(rs) ==
    {rs[r].value : r \in {x \in DOMAIN rs : rs[x].valid /\ x < Len(rs)}}

\* ProtectionSet::iter: the nodes of the valid root slots.
RootNodes(rs) == {rs[r].value : r \in {x \in DOMAIN rs : rs[x].valid}}

\* Ldd::new: a handle [index, root] and the store that protects it.
Ldd_new(s, index) ==
    Then(protect(s, index), LAMBDA p :
         [s |-> p.s, h |-> [index |-> index, root |-> p.root]])

\* Drop for Ldd that also empties the slot of a node no other root names.
Ldd_dropFreesNode(s, h) ==
    IF s.panic \/ s.ovf THEN s
    ELSE Then(unprotect(s, h.root), LAMBDA u :
              IF h.index \in RootNodes(u.roots) THEN u
              ELSE [u EXCEPT !.table[h.index + 1].filled = FALSE])

\* Drop for Ldd (nothing is left to do once the call has aborted).
Ldd_drop(s, h) == IF s.panic \/ s.ovf THEN s ELSE unprotect(s, h.root)

\* ------------------------------------------------- garbage collection

\* mark_node that pushes only the down of a node onto the stack.
RECURSIVE MarkedDownOnly(_, _)
MarkedDownOnly(t, S) ==
    LET inner == S \ {empty_set, empty_vector}
        N == S \cup {At(t, n).down : n \in inner}
    IN IF N = S THEN S ELSE MarkedDownOnly(t, N)

\* mark_node that sets the mark inside the test for the terminals.
RECURSIVE MarkedNoTerminals(_, _)
MarkedNoTerminals(t, S) ==
    LET inner == S \ {empty_set, empty_vector}
        N == (inner \cup {At(t, n).down : n \in inner} \cup {At(t, n).right : n \in inner})
                 \ {empty_set, empty_vector}
    IN IF N = S THEN S ELSE MarkedNoTerminals(t, N)

\* mark_node, for all roots: the slots marked when marking ends. The two
\* terminals are marked but their down and right are not followed.
RECURSIVE Marked(_, _)
Marked(t, S) ==
    LET inner == S \ {empty_set, empty_vector}
        N == S \cup {At(t, n).down : n \in inner} \cup {At(t, n).right : n \in inner}
    IN IF N = S THEN S ELSE Marked(t, N)

\* The sweep loop with a bound that leaves out the last slot of the table.
RECURSIVE SweepShort(_, _, _, _)
SweepShort(t, fr, marked, i) ==
    IF i >= Len(t) - 1 THEN [table |-> t, free |-> fr]
    ELSE IF i \in marked THEN SweepShort(t, fr, marked, i + 1)
    ELSE SweepShort(Put(t, i, [At(t, i) EXCEPT !.right = IF fr = None THEN i ELSE fr,
                                               !.filled = FALSE]),
                    i, marked, i + 1)

\* The sweep loop of garbage_collect from slot i on: a marked slot is left
\* alone, every other slot is pushed onto the freelist.
RECURSIVE Sweep(_, _, _, _)
Sweep(t, fr, marked, i) ==
    IF i >= Len(t) THEN [table |-> t, free |-> fr]
    ELSE IF i \in marked THEN Sweep(t, fr, marked, i + 1)
    ELSE Sweep(Put(t, i, [At(t, i) EXCEPT !.right = IF fr = None THEN i ELSE fr,
                                          !.filled = FALSE]),
               i, marked, i + 1)

\* The check that ends garbage_collect (debug builds).
ChildrenValid(t) ==
    \A i \in Indices(t) :
        is_valid(t, i) => is_valid(t, At(t, i).down) /\ is_valid(t, At(t, i).right)

\* Storage::garbage_collect
garbage_collect(s) ==
    IF Stopped(s) THEN s
    ELSE Then(Marked(s.table, RootNodes(s.roots)), LAMBDA marked :
         Then([s EXCEPT !.cache = EmptyCache, !.gc = TRUE], LAMBDA cleared :
              IF s.debug /\ \E n \in marked : ~is_valid(s.table, n)
              THEN Panic(cleared)
              ELSE Then(Sweep(s.table, s.free, marked, 0), LAMBDA sw :
                   Then([cleared EXCEPT !.table = sw.table, !.free = sw.free], LAMBDA swept :
                        IF s.debug /\ ~ChildrenValid(sw.table) THEN Panic(swept)
                        ELSE swept))))

\* ----------------------------------------------------------------- insert

\* operations::height as insert uses it; -1 when the descent does not end
\* (a chain of downs longer than the table) or, in a debug build, meets a
\* slot that is not filled.
RECURSIVE HeightF(_, _, _, _)
HeightF(t, n, dbg, fuel) ==
    IF n = empty_set \/ n = empty_vector THEN 0
    ELSE IF fuel = 0 \/ (dbg /\ ~is_valid(t, n)) THEN -1
    ELSE LET h == HeightF(t, At(t, n).down, dbg, fuel - 1)
         IN IF h < 0 THEN -1 ELSE h + 1

height(t, n, dbg) == HeightF(t, n, dbg, Len(t))

\* The debug assertions of insert without the comparison of the values.
InsertAssertsNoOrder(s, value, down, right) ==
    /\ down # empty_set
    /\ right # empty_vector
    /\ down < Len(s.table)
    /\ right < Len(s.table)
    /\ right # empty_set =>
          height(s.table, down, TRUE) + 1 = height(s.table, right, TRUE)

\* The debug assertions at the top of insert.
InsertAsserts(s, value, down, right) ==
    /\ down # empty_set
    /\ right # empty_vector
    /\ down < Len(s.table)
    /\ right < Len(s.table)
    /\ right # empty_set =>
          /\ height(s.table, down, TRUE) >= 0
          /\ height(s.table, right, TRUE) >= 0
          /\ height(s.table, down, TRUE) + 1 = height(s.table, right, TRUE)
          /\ is_valid(s.table, right)
          /\ value < At(s.table, right).value

\* The allocation with the counter decremented on every allocation, a reused
\* slot included.
AllocateCountsReuse(s, node) ==
    IF s.free # None
    THEN LET first == s.free
             next == At(s.table, first).right
         IN [s |-> [s EXCEPT !.free = IF first = next THEN None ELSE next,
                             !.count = s.count - 1,
                             !.table = Put(@, first, node)],
             index |-> first]
    ELSE IF Len(s.table) >= s.cap
         THEN [s |-> [s EXCEPT !.ovf = TRUE], index |-> empty_set]
         ELSE [s |-> [s EXCEPT !.count = s.count - 1,
                               !.table = Append(@, node)],
               index |-> Len(s.table)]

\* The allocation at the end of insert: the head of the freelist, or a new
\* slot at the end of the table.
Allocate(s, node) ==
    IF s.free # None
    THEN LET first == s.free
             next == At(s.table, first).right
         IN [s |-> [s EXCEPT !.free = IF first = next THEN None ELSE next,
                             !.table = Put(@, first, node)],
             index |-> first]
    ELSE IF Len(s.table) >= s.cap
         THEN [s |-> [s EXCEPT !.ovf = TRUE], index |-> empty_set]
         ELSE [s |-> [s EXCEPT !.count = s.count - 1,
                               !.table = Append(@, node)],
               index |-> Len(s.table)]

\* The safepoint that collects whatever enable_garbage_collection says.
SafepointAlwaysCollects(s) ==
    IF s.count = 0
    THEN Then(garbage_collect(s), LAMBDA g :
              [g EXCEPT !.count = Len(g.table)])
    ELSE s

\* The safepoint of insert.
Safepoint(s) ==
    IF s.count = 0
    THEN Then(IF s.enable THEN garbage_collect(s)
              ELSE [s EXCEPT !.skipped = TRUE], LAMBDA g :
              [g EXCEPT !.count = Len(g.table)])
    ELSE s

NoHandle == [index |-> empty_set, root |-> None]

\* Storage::insert
insert(s, value, down, right) ==
    IF Stopped(s) THEN [s |-> s, h |-> NoHandle]
    ELSE Then([s EXCEPT !.insert_freed =
                  @ \/ ~is_valid(s.table, down) \/ ~is_valid(s.table, right)],
         LAMBDA seen :
              IF s.debug /\ ~InsertAsserts(s, value, down, right)
              THEN [s |-> Panic(seen), h |-> NoHandle]
              ELSE Then(Safepoint(seen), LAMBDA g :
                        IF Stopped(g) THEN [s |-> g, h |-> NoHandle]
                        ELSE Then(Allocate(g, NewNode(value, down, right)), LAMBDA a :
                                  IF a.s.ovf THEN [s |-> a.s, h |-> NoHandle]
                                  ELSE Ldd_new(a.s, a.index))))

\* verify_ldd without the assertion that the slot is filled.
verify_lddOnlyTerminals(s, n) == n # empty_set /\ n # empty_vector

\* Storage::verify_ldd
verify_ldd(s, n) == n # empty_set /\ n # empty_vector /\ is_valid(s.table, n)

\* Storage::get: the value and protected handles for down and right.
get(s, n) ==
    IF Stopped(s) THEN [s |-> s, value |-> 0, down |-> NoHandle, right |-> NoHandle]
    ELSE Then([s EXCEPT !.read_freed = @ \/ ~is_valid(s.table, n)], LAMBDA seen :
              IF s.debug /\ ~verify_ldd(s, n)
              THEN [s |-> Panic(seen), value |-> 0, down |-> NoHandle, right |-> NoHandle]
              ELSE Then(Ldd_new(seen, At(s.table, n).down), LAMBDA d :
                   Then(Ldd_new(d.s, At(s.table, n).right), LAMBDA r :
                        [s |-> r.s, value |-> At(s.table, n).value,
                         down |-> d.h, right |-> r.h])))

\* ------------------------------------------------------------- operations

\* The deepest recursion of an operation on an acyclic table; a recursion
\* that goes deeper does not end in the code either (it overflows the stack).
OpFuel == 2 * MaxTable

\* The loop of singleton, from position i of the vector down to 1.
RECURSIVE SingletonLoop(_, _, _, _)
SingletonLoop(s, vector, i, root) ==
    IF i = 0 \/ Stopped(s) THEN [s |-> s, h |-> root]
    ELSE Then(insert(s, vector[i], root.index, empty_set), LAMBDA n :
              SingletonLoop(Ldd_drop(n.s, root), vector, i - 1, n.h))

\* operations::singleton
singleton(s, vector) ==
    Then(Ldd_new(s, empty_vector), LAMBDA root :
    Then(Ldd_new(root.s, empty_set), LAMBDA es :
    Then(SingletonLoop(es.s, vector, Len(vector), root.h), LAMBDA r :
         [s |-> Ldd_drop(r.s, es.h), h |-> r.h])))

\* The handles get returned are dropped at the end of the scope, the last
\* declared first.
DropData(s, g) == Ldd_drop(Ldd_drop(s, g.right), g.down)

\* operations::union without the test for equal operands.
RECURSIVE unionNoEqualTest(_, _, _, _)
unionNoEqualTest(s, a, b, fuel) ==
    IF Stopped(s) THEN [s |-> s, h |-> NoHandle]
    ELSE IF fuel = 0 THEN [s |-> Panic(s), h |-> NoHandle]
    ELSE IF a = empty_set THEN Ldd_new(s, b)
    ELSE IF b = empty_set THEN Ldd_new(s, a)
    ELSE Then(get(s, a), LAMBDA ga :
         Then(get(ga.s, b), LAMBDA gb :
         Then(IF ga.value < gb.value
              THEN Then(unionNoEqualTest(gb.s, ga.right.index, b, fuel - 1),
                   LAMBDA result :
                   Then(insert(result.s, ga.value, ga.down.index, result.h.index),
                   LAMBDA n :
                        [s |-> Ldd_drop(n.s, result.h), h |-> n.h]))
              ELSE IF ga.value = gb.value
              THEN Then(unionNoEqualTest(gb.s, ga.down.index, gb.down.index, fuel - 1),
                   LAMBDA down_result :
                   Then(unionNoEqualTest(down_result.s, ga.right.index, gb.right.index,
                                         fuel - 1),
                   LAMBDA right_result :
                   Then(insert(right_result.s, ga.value, down_result.h.index,
                               right_result.h.index),
                   LAMBDA n :
                        [s |-> Ldd_drop(Ldd_drop(n.s, right_result.h), down_result.h),
                         h |-> n.h])))
              ELSE Then(unionNoEqualTest(gb.s, a, gb.right.index, fuel - 1),
                   LAMBDA result :
                   Then(insert(result.s, gb.value, gb.down.index, result.h.index),
                   LAMBDA n :
                        [s |-> Ldd_drop(n.s, result.h), h |-> n.h])),
         LAMBDA res :
              [s |-> DropData(DropData(res.s, gb), ga), h |-> res.h])))

\* operations::union
RECURSIVE union(_, _, _, _)
union(s, a, b, fuel) ==
    IF Stopped(s) THEN [s |-> s, h |-> NoHandle]
    ELSE IF fuel = 0 THEN [s |-> Panic(s), h |-> NoHandle]
    ELSE IF a = b THEN Ldd_new(s, a)
    ELSE IF a = empty_set THEN Ldd_new(s, b)
    ELSE IF b = empty_set THEN Ldd_new(s, a)
    ELSE Then(get(s, a), LAMBDA ga :
         Then(get(ga.s, b), LAMBDA gb :
         Then(IF ga.value < gb.value
              THEN Then(union(gb.s, ga.right.index, b, fuel - 1), LAMBDA result :
                   Then(insert(result.s, ga.value, ga.down.index, result.h.index),
                   LAMBDA n :
                        [s |-> Ldd_drop(n.s, result.h), h |-> n.h]))
              ELSE IF ga.value = gb.value
              THEN Then(union(gb.s, ga.down.index, gb.down.index, fuel - 1),
                   LAMBDA down_result :
                   Then(union(down_result.s, ga.right.index, gb.right.index, fuel - 1),
                   LAMBDA right_result :
                   Then(insert(right_result.s, ga.value, down_result.h.index,
                               right_result.h.index),
                   LAMBDA n :
                        [s |-> Ldd_drop(Ldd_drop(n.s, right_result.h), down_result.h),
                         h |-> n.h])))
              ELSE Then(union(gb.s, a, gb.right.index, fuel - 1), LAMBDA result :
                   Then(insert(result.s, gb.value, gb.down.index, result.h.index),
                   LAMBDA n :
                        [s |-> Ldd_drop(n.s, result.h), h |-> n.h])),
         LAMBDA res :
              [s |-> DropData(DropData(res.s, gb), ga), h |-> res.h])))

\* operations::minus
RECURSIVE minus(_, _, _, _)
minus(s, a, b, fuel) ==
    IF Stopped(s) THEN [s |-> s, h |-> NoHandle]
    ELSE IF fuel = 0 THEN [s |-> Panic(s), h |-> NoHandle]
    ELSE IF a = b \/ a = empty_set THEN Ldd_new(s, empty_set)
    ELSE IF b = empty_set THEN Ldd_new(s, a)
    ELSE Then(get(s, a), LAMBDA ga :
         Then(get(ga.s, b), LAMBDA gb :
         Then(IF ga.value < gb.value
              THEN Then(minus(gb.s, ga.right.index, b, fuel - 1), LAMBDA right_result :
                   Then(insert(right_result.s, ga.value, ga.down.index,
                               right_result.h.index),
                   LAMBDA n :
                        [s |-> Ldd_drop(n.s, right_result.h), h |-> n.h]))
              ELSE IF ga.value = gb.value
              THEN Then(minus(gb.s, ga.down.index, gb.down.index, fuel - 1),
                   LAMBDA down_result :
                   Then(minus(down_result.s, ga.right.index, gb.right.index, fuel - 1),
                   LAMBDA right_result :
                        IF down_result.h.index = empty_set
                        THEN [s |-> Ldd_drop(right_result.s, down_result.h),
                              h |-> right_result.h]
                        ELSE Then(insert(right_result.s, ga.value, down_result.h.index,
                                         right_result.h.index),
                             LAMBDA n :
                                  [s |-> Ldd_drop(Ldd_drop(n.s, right_result.h),
                                                  down_result.h),
                                   h |-> n.h])))
              ELSE minus(gb.s, a, gb.right.index, fuel - 1),
         LAMBDA res :
              [s |-> DropData(DropData(res.s, gb), ga), h |-> res.h])))

\* Handles dropped one after the other, as a scope ends.
RECURSIVE DropAll(_, _)
DropAll(s, hs) ==
    IF hs = <<>> THEN s ELSE DropAll(Ldd_drop(s, Head(hs)), Tail(hs))

\* `let Data(value, down, _) = storage.get(n)`: the handle for right is
\* dropped at the end of the statement.
get_down(s, n) ==
    Then(get(s, n), LAMBDA g :
         [s |-> Ldd_drop(g.s, g.right), value |-> g.value, down |-> g.down])

\* insert(value, &down_result, &right_result) without the test for an empty
\* down_result before it.
MergeAlwaysInserts(s, value, down_result, right_result) ==
    IF Stopped(s) THEN [s |-> s, h |-> NoHandle]
    ELSE Then(insert(s, value, down_result.index, right_result.index), LAMBDA n :
              [s |-> DropAll(n.s, <<down_result, right_result>>), h |-> n.h])

\* if down_result == empty_set { right_result } else { insert(value, &down_result,
\* &right_result) }, and the end of the scope of the two results.
Merge(s, value, down_result, right_result) ==
    IF Stopped(s) THEN [s |-> s, h |-> NoHandle]
    ELSE IF down_result.index = empty_set
    THEN [s |-> Ldd_drop(s, down_result), h |-> right_result]
    ELSE Then(insert(s, value, down_result.index, right_result.index), LAMBDA n :
              [s |-> DropAll(n.s, <<down_result, right_result>>), h |-> n.h])

\* operations::project
RECURSIVE project(_, _, _, _)
project(s, set, proj, fuel) ==
    IF Stopped(s) THEN [s |-> s, h |-> NoHandle]
    ELSE IF fuel = 0 \/ proj = empty_set THEN [s |-> Panic(s), h |-> NoHandle]
    ELSE IF proj = empty_vector THEN Ldd_new(s, empty_vector)
    ELSE IF set = empty_set THEN Ldd_new(s, empty_set)
    ELSE IF set = empty_vector THEN [s |-> Panic(s), h |-> NoHandle]
    ELSE Then(get_down(s, proj), LAMBDA gp :
         Then(get(gp.s, set), LAMBDA gs :
         Then(project(gs.s, gs.right.index, proj, fuel - 1), LAMBDA right_result :
         Then(project(right_result.s, gs.down.index, gp.down.index, fuel - 1),
         LAMBDA down_result :
         Then(IF gp.value = 0
              THEN Then(union(down_result.s, right_result.h.index, down_result.h.index,
                              OpFuel),
                   LAMBDA u :
                        [s |-> DropAll(u.s, <<down_result.h, right_result.h>>),
                         h |-> u.h])
              ELSE IF gp.value = 1
              THEN Merge(down_result.s, gs.value, down_result.h, right_result.h)
              ELSE [s |-> Panic(gs.s), h |-> NoHandle],
         LAMBDA res :
              [s |-> DropAll(res.s, <<gs.right, gs.down, gp.down>>), h |-> res.h])))))

\* The first loop of relational_product for tag 2: the union of the downs of
\* the right-chain of `current`.
RECURSIVE Combine(_, _, _, _)
Combine(s, combined, current, fuel) ==
    IF Stopped(s) THEN [s |-> s, h |-> NoHandle]
    ELSE IF fuel = 0 THEN [s |-> Panic(s), h |-> NoHandle]
    ELSE Then(get(s, current.index), LAMBDA g :
         Then(union(g.s, combined.index, g.down.index, OpFuel), LAMBDA u :
         Then(Ldd_drop(u.s, combined), LAMBDA c :
              IF Stopped(c) THEN [s |-> c, h |-> NoHandle]
              ELSE IF g.right.index = empty_set
              THEN [s |-> DropAll(c, <<g.right, g.down, current>>), h |-> u.h]
              ELSE Combine(DropAll(c, <<current, g.down>>), u.h, g.right, fuel - 1))))

RECURSIVE relational_product(_, _, _, _, _)

\* The last branch of relational_product: the match on the tag of meta.
RelationalProductMatch(s, set, rel, meta, fuel) ==
         Then(get_down(s, meta), LAMBDA gm :
         Then(CASE gm.value = 0 ->
                   Then(get(gm.s, set), LAMBDA gs :
                   Then(relational_product(gs.s, gs.right.index, rel, meta, fuel - 1),
                   LAMBDA right_result :
                   Then(relational_product(right_result.s, gs.down.index, rel,
                                           gm.down.index, fuel - 1),
                   LAMBDA down_result :
                   Then(Merge(down_result.s, gs.value, down_result.h, right_result.h),
                   LAMBDA m :
                        [s |-> DropData(m.s, gs), h |-> m.h]))))
                [] gm.value = 1 ->
                   Then(get(gm.s, set), LAMBDA gs :
                   Then(get(gs.s, rel), LAMBDA gr :
                   Then(IF gs.value < gr.value
                        THEN relational_product(gr.s, gs.right.index, rel, meta, fuel - 1)
                        ELSE IF gs.value = gr.value
                        THEN Then(relational_product(gr.s, gs.down.index, gr.down.index,
                                                     gm.down.index, fuel - 1),
                             LAMBDA down_result :
                             Then(relational_product(down_result.s, gs.right.index,
                                                     gr.right.index, meta, fuel - 1),
                             LAMBDA right_result :
                                  Merge(right_result.s, gs.value, down_result.h,
                                        right_result.h)))
                        ELSE relational_product(gr.s, set, gr.right.index, meta, fuel - 1),
                   LAMBDA r :
                        [s |-> DropData(DropData(r.s, gr), gs), h |-> r.h])))
                [] gm.value = 2 ->
                   Then(Ldd_new(gm.s, empty_set), LAMBDA combined0 :
                   Then(Ldd_new(combined0.s, set), LAMBDA current0 :
                   Then(Combine(current0.s, combined0.h, current0.h, OpFuel),
                   LAMBDA combined :
                   Then(get(combined.s, rel), LAMBDA gr :
                   Then(relational_product(gr.s, combined.h.index, gr.down.index,
                                           gm.down.index, fuel - 1),
                   LAMBDA down_result :
                   Then(relational_product(down_result.s, set, gr.right.index, meta,
                                           fuel - 1),
                   LAMBDA right_result :
                   Then(Merge(right_result.s, gr.value, down_result.h, right_result.h),
                   LAMBDA m :
                        [s |-> Ldd_drop(DropData(m.s, gr), combined.h), h |-> m.h])))))))
                [] gm.value = 3 ->
                   Then(get(gm.s, set), LAMBDA gs :
                   Then(get(gs.s, rel), LAMBDA gr :
                   Then(IF gs.value < gr.value
                        THEN relational_product(gr.s, gs.right.index, rel, meta, fuel - 1)
                        ELSE IF gs.value = gr.value
                        THEN Then(relational_product(gr.s, gs.down.index, gr.down.index,
                                                     gm.down.index, fuel - 1),
                             LAMBDA down_result :
                             Then(relational_product(down_result.s, gs.right.index,
                                                     gr.right.index, meta, fuel - 1),
                             LAMBDA right_result :
                             Then(union(right_result.s, down_result.h.index,
                                        right_result.h.index, OpFuel),
                             LAMBDA u :
                                  [s |-> DropAll(u.s, <<right_result.h, down_result.h>>),
                                   h |-> u.h])))
                        ELSE relational_product(gr.s, set, gr.right.index, meta, fuel - 1),
                   LAMBDA r :
                        [s |-> DropData(DropData(r.s, gr), gs), h |-> r.h])))
                [] gm.value = 4 ->
                   Then(get(gm.s, rel), LAMBDA gr :
                   Then(relational_product(gr.s, set, gr.down.index, gm.down.index,
                                           fuel - 1),
                   LAMBDA down_result :
                   Then(relational_product(down_result.s, set, gr.right.index, meta,
                                           fuel - 1),
                   LAMBDA right_result :
                   Then(Merge(right_result.s, gr.value, down_result.h, right_result.h),
                   LAMBDA m :
                        [s |-> DropData(m.s, gr), h |-> m.h]))))
                [] OTHER -> [s |-> Panic(gm.s), h |-> NoHandle],
         LAMBDA res :
              [s |-> Ldd_drop(res.s, gm.down), h |-> res.h]))

\* operations::relational_product with the test for an empty set or relation
\* before the test for the end of meta.
relational_productEmptyFirst(s, set, rel, meta, fuel) ==
    IF Stopped(s) THEN [s |-> s, h |-> NoHandle]
    ELSE IF fuel = 0 \/ meta = empty_set THEN [s |-> Panic(s), h |-> NoHandle]
    ELSE IF set = empty_set \/ rel = empty_set THEN Ldd_new(s, empty_set)
    ELSE IF meta = empty_vector THEN Ldd_new(s, set)
    ELSE RelationalProductMatch(s, set, rel, meta, fuel)

\* operations::relational_product
relational_product(s, set, rel, meta, fuel) ==
    IF Stopped(s) THEN [s |-> s, h |-> NoHandle]
    ELSE IF fuel = 0 \/ meta = empty_set THEN [s |-> Panic(s), h |-> NoHandle]
    ELSE IF meta = empty_vector THEN Ldd_new(s, set)
    ELSE IF set = empty_set \/ rel = empty_set THEN Ldd_new(s, empty_set)
    ELSE RelationalProductMatch(s, set, rel, meta, fuel)

\* max(indices) + 1, or 0 for no indices: the length of a guide chain.
GuideLength(indices) ==
    IF indices = <<>> THEN 0
    ELSE 1 + CHOOSE m \in {indices[i] : i \in DOMAIN indices} :
                 \A i \in DOMAIN indices : indices[i] <= m

Contains(indices, i) == \E k \in DOMAIN indices : indices[k] = i

\* operations::compute_proj
compute_proj(s, proj) ==
    singleton(s, [k \in 1..GuideLength(proj) |-> IF Contains(proj, k - 1) THEN 1 ELSE 0])

\* The tags compute_meta pushes for the levels from i on.
RECURSIVE MetaTags(_, _, _, _)
MetaTags(read_proj, write_proj, i, length) ==
    IF i >= length THEN <<>>
    ELSE (IF Contains(read_proj, i) /\ Contains(write_proj, i) THEN <<3, 4>>
          ELSE IF Contains(read_proj, i) THEN <<1>>
          ELSE IF Contains(write_proj, i) THEN <<2>>
          ELSE <<0>>) \o MetaTags(read_proj, write_proj, i + 1, length)

\* operations::compute_meta with a guide one level short.
compute_metaShort(s, read_proj, write_proj) ==
    LET lr == GuideLength(read_proj)
        lw == GuideLength(write_proj)
    IN singleton(s, MetaTags(read_proj, write_proj, 0,
                             (IF lr > lw THEN lr ELSE lw) - 1))

\* operations::compute_meta
compute_meta(s, read_proj, write_proj) ==
    LET lr == GuideLength(read_proj)
        lw == GuideLength(write_proj)
    IN singleton(s, MetaTags(read_proj, write_proj, 0, IF lr > lw THEN lr ELSE lw))

\* ------------------------------------------------------------------ len

\* The for loop of len that counts the nodes of the right chain rather than
\* the vectors below them.
RECURSIVE LenLoopCountsNodes(_, _, _, _)
LenLoopCountsNodes(s, current, result, fuel) ==
    IF Stopped(s) THEN [s |-> s, n |-> 0]
    ELSE IF fuel = 0 THEN [s |-> Panic(s), n |-> 0]
    ELSE IF current.index = empty_set THEN [s |-> Ldd_drop(s, current), n |-> result]
    ELSE Then(get(s, current.index), LAMBDA g :
         Then(Ldd_new(g.s, g.right.index), LAMBDA next :
              LenLoopCountsNodes(Ldd_drop(Ldd_drop(Ldd_drop(next.s, current), g.down),
                                          g.right),
                                 next.h, result + 1, fuel - 1)))

\* The for loop of len over iter_right: `current` is the handle the iterator
\* holds; every step gets the node, moves the iterator to a clone of right and
\* adds len(down).
RECURSIVE len(_, _, _)
RECURSIVE LenLoop(_, _, _, _)
LenLoop(s, current, result, fuel) ==
    IF Stopped(s) THEN [s |-> s, n |-> 0]
    ELSE IF fuel = 0 THEN [s |-> Panic(s), n |-> 0]
    ELSE IF current.index = empty_set THEN [s |-> Ldd_drop(s, current), n |-> result]
    ELSE Then(get(s, current.index), LAMBDA g :
         Then(Ldd_new(g.s, g.right.index), LAMBDA next :
         Then(len(Ldd_drop(next.s, current), g.down.index, fuel - 1), LAMBDA below :
              LenLoop(Ldd_drop(Ldd_drop(below.s, g.down), g.right), next.h,
                      result + below.n, fuel - 1))))

\* operations::len: [s, n], n the number of vectors of the set.
len(s, set, fuel) ==
    IF Stopped(s) THEN [s |-> s, n |-> 0]
    ELSE IF fuel = 0 THEN [s |-> Panic(s), n |-> 0]
    ELSE IF set = empty_set THEN [s |-> s, n |-> 0]
    ELSE IF set = empty_vector THEN [s |-> s, n |-> 1]
    ELSE Then(Ldd_new(s, set), LAMBDA it : LenLoop(it.s, it.h, 0, fuel))

\* The for loop of element_of that answers at the first value that matches,
\* without the descent into down.
RECURSIVE ElementOfLoopShallow(_, _, _, _)
ElementOfLoopShallow(s, vector, current, fuel) ==
    IF Stopped(s) THEN [s |-> s, b |-> FALSE]
    ELSE IF fuel = 0 THEN [s |-> Panic(s), b |-> FALSE]
    ELSE IF current.index = empty_set THEN [s |-> Ldd_drop(s, current), b |-> FALSE]
    ELSE Then(get(s, current.index), LAMBDA g :
         Then(Ldd_new(g.s, g.right.index), LAMBDA next :
         Then(Ldd_drop(next.s, current), LAMBDA moved :
              IF g.value < Head(vector)
              THEN ElementOfLoopShallow(Ldd_drop(Ldd_drop(moved, g.down), g.right),
                                        vector, next.h, fuel - 1)
              ELSE [s |-> Ldd_drop(Ldd_drop(Ldd_drop(moved, g.down), g.right), next.h),
                    b |-> g.value = Head(vector)])))

\* The for loop of element_of over iter_right: every step gets the node and
\* moves the iterator to a clone of right; the handles of the step and the
\* iterator are dropped where the loop is left.
RECURSIVE element_of(_, _, _, _)
RECURSIVE ElementOfLoop(_, _, _, _)
ElementOfLoop(s, vector, current, fuel) ==
    IF Stopped(s) THEN [s |-> s, b |-> FALSE]
    ELSE IF fuel = 0 THEN [s |-> Panic(s), b |-> FALSE]
    ELSE IF current.index = empty_set THEN [s |-> Ldd_drop(s, current), b |-> FALSE]
    ELSE Then(get(s, current.index), LAMBDA g :
         Then(Ldd_new(g.s, g.right.index), LAMBDA next :
         Then(Ldd_drop(next.s, current), LAMBDA moved :
              IF g.value < Head(vector)
              THEN ElementOfLoop(Ldd_drop(Ldd_drop(moved, g.down), g.right),
                                 vector, next.h, fuel - 1)
              ELSE IF g.value = Head(vector)
              THEN Then(element_of(moved, Tail(vector), g.down.index, fuel - 1),
                   LAMBDA below :
                        [s |-> Ldd_drop(Ldd_drop(Ldd_drop(below.s, g.down), g.right),
                                        next.h),
                         b |-> below.b])
              ELSE [s |-> Ldd_drop(Ldd_drop(Ldd_drop(moved, g.down), g.right), next.h),
                    b |-> FALSE])))

\* operations::element_of: [s, b], b the answer.
element_of(s, vector, ldd, fuel) ==
    IF Stopped(s) THEN [s |-> s, b |-> FALSE]
    ELSE IF fuel = 0 THEN [s |-> Panic(s), b |-> FALSE]
    ELSE IF vector = <<>> THEN [s |-> s, b |-> (ldd = empty_vector)]
    ELSE IF ldd = empty_vector THEN [s |-> s, b |-> FALSE]
    ELSE Then(Ldd_new(s, ldd), LAMBDA it : ElementOfLoop(it.s, vector, it.h, fuel))

\* All but the last element: Vec::pop.
Popped(q) == IF q = <<>> THEN q ELSE SubSeq(q, 1, Len(q) - 1)

\* The first loop of Iter::next, down the chain from the top of the stack:
\* [s, vector, stack, some]; some is FALSE where next returns None. A descent
\* that does not end exhausts the fuel.
RECURSIVE IterDescend(_, _, _, _)
IterDescend(s, vector, stack, fuel) ==
    IF Stopped(s) \/ stack = <<>>
    THEN [s |-> s, vector |-> vector, stack |-> stack, some |-> FALSE]
    ELSE IF fuel = 0
    THEN [s |-> Panic(s), vector |-> vector, stack |-> stack, some |-> FALSE]
    ELSE Then(get_down(s, stack[Len(stack)].index), LAMBDA g :
              IF Stopped(g.s)
              THEN [s |-> g.s, vector |-> vector, stack |-> stack, some |-> FALSE]
              ELSE IF g.down.index = empty_vector
              THEN [s |-> Ldd_drop(g.s, g.down), vector |-> Append(vector, g.value),
                    stack |-> stack, some |-> TRUE]
              ELSE Then(Ldd_new(g.s, g.down.index), LAMBDA c :
                        IterDescend(Ldd_drop(c.s, g.down), Append(vector, g.value),
                                    Append(stack, c.h), fuel - 1)))

\* The second loop of Iter::next, up the chain to the next right sibling that
\* is not 'false': [s, vector, stack].
RECURSIVE IterAscend(_, _, _)
IterAscend(s, vector, stack) ==
    IF Stopped(s) \/ stack = <<>> THEN [s |-> s, vector |-> vector, stack |-> stack]
    ELSE Then(get(s, stack[Len(stack)].index), LAMBDA g :
         Then(Ldd_drop(g.s, g.down), LAMBDA seen :
              IF Stopped(seen)
              THEN [s |-> seen, vector |-> vector, stack |-> stack]
              ELSE IF g.right.index # empty_set
              THEN Then(Ldd_new(seen, g.right.index), LAMBDA c :
                        [s |-> Ldd_drop(Ldd_drop(c.s, g.right), stack[Len(stack)]),
                         vector |-> Popped(vector),
                         stack |-> Append(Popped(stack), c.h)])
              ELSE IterAscend(Ldd_drop(Ldd_drop(seen, g.right), stack[Len(stack)]),
                              Popped(vector), Popped(stack))))

\* Iter::next: [s, vector, stack, some, item]; item is the vector returned
\* where some is TRUE.
IterNext(s, vector, stack) ==
    Then(IterDescend(s, vector, stack, OpFuel), LAMBDA d :
         IF ~d.some
         THEN [s |-> d.s, vector |-> d.vector, stack |-> d.stack, some |-> FALSE,
               item |-> <<>>]
         ELSE Then(IterAscend(d.s, d.vector, d.stack), LAMBDA a :
                   [s |-> a.s, vector |-> a.vector, stack |-> a.stack, some |-> TRUE,
                    item |-> d.vector]))

\* `for vector in iter(&storage, &ldd)` to its end: [s, out], out the vectors
\* in the order next returned them; the iterator is dropped after the loop.
RECURSIVE IterLoop(_, _, _, _, _)
IterLoop(s, vector, stack, out, fuel) ==
    IF Stopped(s) THEN [s |-> s, out |-> out]
    ELSE IF fuel = 0 THEN [s |-> Panic(s), out |-> out]
    ELSE Then(IterNext(s, vector, stack), LAMBDA n :
              IF Stopped(n.s) THEN [s |-> n.s, out |-> out]
              ELSE IF ~n.some THEN [s |-> DropAll(n.s, n.stack), out |-> out]
              ELSE IterLoop(n.s, n.vector, n.stack, Append(out, n.item), fuel - 1))

\* iterators::iter and the loop over it.
iter(s, ldd) ==
    IF Stopped(s) THEN [s |-> s, out |-> <<>>]
    ELSE IF ldd = empty_set THEN IterLoop(s, <<>>, <<>>, <<>>, OpFuel)
    ELSE Then(Ldd_new(s, ldd), LAMBDA c : IterLoop(c.s, <<>>, <<c.h>>, <<>>, OpFuel))

\* ------------------------------------------------------- operation cache

\* What the slots of the identities `ids` hold in table t.
NodesOf(t, ids) == {<<i, At(t, i)>> : i \in ids}

\* cache_unary_function with UnaryFunction::Len and f = len.
cache_unary_function(s, a) ==
    LET hits == {e \in s.cache.c1 : e[1] = a}
    IN IF Stopped(s) THEN [s |-> s, n |-> 0]
       ELSE IF hits # {} THEN [s |-> s, n |-> (CHOOSE e \in hits : TRUE)[2]]
       ELSE Then(len(s, a, OpFuel), LAMBDA res :
                 IF Stopped(res.s) THEN res
                 ELSE [s |-> [res.s EXCEPT
                                 !.cache.c1 = @ \cup {<<a, res.n>>},
                                 !.cache.nodes = @ \cup NodesOf(s.table, {a})],
                       n |-> res.n])

\* cache_binary_op with f = union (BinaryOperator::Union) or f = minus
\* (BinaryOperator::Minus) on its two operands; a and b are handles the
\* call owns and drops.
cache_binary_op(s, operator, a, b) ==
    LET key == <<a.index, b.index>>
        hits == {e \in s.cache[operator] : e[1] = key}
    IN IF Stopped(s) THEN [s |-> s, h |-> NoHandle]
       ELSE IF hits # {}
       THEN Then(Ldd_new(s, (CHOOSE e \in hits : TRUE)[2]), LAMBDA r :
                 [s |-> Ldd_drop(Ldd_drop(r.s, b), a), h |-> r.h])
       ELSE Then(IF operator = "union"
                 THEN union(s, a.index, b.index, OpFuel)
                 ELSE minus(s, a.index, b.index, OpFuel),
            LAMBDA res :
            Then(Ldd_drop(Ldd_drop(res.s, b), a), LAMBDA done :
                 IF Stopped(done) THEN [s |-> done, h |-> NoHandle]
                 ELSE [s |-> [done EXCEPT
                                 !.cache[operator] = @ \cup {<<key, res.h.index>>},
                                 !.cache.nodes = @ \cup NodesOf(s.table, {a.index, b.index})
                                                   \cup NodesOf(done.table, {res.h.index})],
                       h |-> res.h]))

\* cache_comm_binary_op that keeps the order of its operands.
cache_comm_binary_opKeepsOrder(s, operator, a, b) ==
    cache_binary_op(s, operator, a, b)

\* cache_comm_binary_op
cache_comm_binary_op(s, operator, a, b) ==
    IF a.index < b.index
    THEN cache_binary_op(s, operator, a, b)
    ELSE cache_binary_op(s, operator, b, a)

\* cache_terniary_op with TernaryOperator::RelationalProduct and
\* f = relational_product; a, b and c are borrowed.
cache_terniary_op(s, a, b, c) ==
    LET key == <<a, b, c>>
        hits == {e \in s.cache.c3 : e[1] = key}
    IN IF Stopped(s) THEN [s |-> s, h |-> NoHandle]
       ELSE IF hits # {} THEN Ldd_new(s, (CHOOSE e \in hits : TRUE)[2])
       ELSE Then(relational_product(s, a, b, c, OpFuel), LAMBDA res :
                 IF Stopped(res.s) THEN [s |-> res.s, h |-> NoHandle]
                 ELSE [s |-> [res.s EXCEPT
                                 !.cache.c3 = @ \cup {<<key, res.h.index>>},
                                 !.cache.nodes = @ \cup NodesOf(s.table, {a, b, c})
                                                   \cup NodesOf(res.s.table, {res.h.index})],
                       h |-> res.h])

\* ------------------------------------------------------------ the client

\* The vectors the client passes to singleton.
Vectors == UNION {[1..n -> Values] : n \in 0..MaxLen}

\* The root slots of Storage.empty_set and Storage.empty_vector.
OwnRoots == {0, 1}

\* The handles a call can be given: the client's and the two of the store.
Args == handles \cup OwnRoots

\* Ldd::index of the handle in root slot r.
IndexOf(r) == roots[r + 1].value

\* The state after a call that left the store as s.
Commit(s) ==
    /\ table' = s.table
    /\ free' = s.free
    /\ roots' = s.roots
    /\ ps_free' = s.ps_free
    /\ count_until_collection' = s.count
    /\ enable_garbage_collection' = s.enable
    /\ cache' = s.cache
    /\ panicked' = s.panic
    /\ flags' = [read_freed |-> s.read_freed, insert_freed |-> s.insert_freed,
                 misused |-> s.misused]
    /\ debug' = debug
    /\ steps' = steps + 1

\* The state after a call of a client that runs no test.
Apply(s) == Commit(s) /\ test' = test

\* A call that returns a handle to the client.
Returns(res) ==
    /\ ~res.s.ovf
    /\ Apply(res.s)
    /\ handles' = IF res.s.panic THEN handles ELSE handles \cup {res.h.root}
    /\ last' = IF res.s.gc THEN "safepoint"
               ELSE IF res.s.skipped THEN "skipped" ELSE "none"

\* The client can make a call: the program has not aborted. A client that has
\* broken the contract of insert in a build that does not check it is not
\* followed further.
CanCall == ~panicked /\ ~flags.misused /\ steps < MaxSteps

CanHold(n) == CanCall /\ Cardinality(handles) + n <= MaxHandles

\* No test: A and B are the vectors the sets are built from, in the order of
\* the iteration, v the vector asked about, read and write the lists of
\* indices given to compute_proj and compute_meta; result and expected are the
\* identities the test compares, b, n and out the answers of element_of, len
\* and the iteration.
NoTest == [op |-> "none", A |-> <<>>, B |-> <<>>, v |-> <<>>, read |-> <<>>,
           write |-> <<>>, result |-> empty_set, expected |-> empty_set,
           b |-> FALSE, n |-> 0, out |-> <<>>]

\* Storage::new
StorageNew ==
    /\ table = <<NewNode(0, 0, 0), NewNode(0, 0, 0)>>
    /\ free = None
    /\ roots = <<[value |-> empty_set, valid |-> TRUE],
                 [value |-> empty_vector, valid |-> TRUE]>>
    /\ ps_free = None
    /\ count_until_collection = InitialCount
    /\ enable_garbage_collection = TRUE
    /\ cache = EmptyCache
    /\ handles = {}
    /\ debug \in BOOLEAN
    /\ panicked = FALSE
    /\ flags = [read_freed |-> FALSE, insert_freed |-> FALSE, misused |-> FALSE]
    /\ steps = 0
    /\ last = "none"

Init == StorageNew /\ test = NoTest

\* storage.insert(value, &down, &right) with handles the client holds, the
\* triple within the contract of insert or not.
Insert(value, d, r) ==
    /\ CanHold(1)
    /\ Returns(insert([Store EXCEPT !.misused =
                          ~InsertAsserts(Store, value, IndexOf(d), IndexOf(r))],
                      value, IndexOf(d), IndexOf(r)))

\* storage.down(&h)
Down(h) ==
    /\ CanHold(1)
    /\ Returns(Then(get(Store, IndexOf(h)), LAMBDA g :
                    [s |-> Ldd_drop(g.s, g.right), h |-> g.down]))

\* storage.right(&h)
Right(h) ==
    /\ CanHold(1)
    /\ Returns(Then(get(Store, IndexOf(h)), LAMBDA g :
                    [s |-> Ldd_drop(g.s, g.down), h |-> g.right]))

\* h.clone()
Clone(h) ==
    /\ CanHold(1)
    /\ Returns(Ldd_new(Store, IndexOf(h)))

\* drop(h)
Drop(h) ==
    /\ CanCall
    /\ Apply(Ldd_drop(Store, [index |-> IndexOf(h), root |-> h]))
    /\ handles' = handles \ {h}
    /\ last' = "none"

\* storage.garbage_collect()
GarbageCollect ==
    /\ CanCall
    /\ Apply(garbage_collect(Store))
    /\ handles' = handles
    /\ last' = "garbage_collect"

\* storage.enable_garbage_collection(enabled)
EnableGarbageCollection(enabled) ==
    /\ CanCall
    /\ enabled # enable_garbage_collection
    /\ Apply([Store EXCEPT !.enable = enabled])
    /\ handles' = handles
    /\ last' = "none"

\* singleton(&mut storage, &vector)
Singleton(vector) ==
    /\ CanHold(1)
    /\ Returns(singleton(Store, vector))

\* The operands of union and minus encode sets of vectors of one length.
SameHeight(a, b) ==
    \/ a = empty_set
    \/ b = empty_set
    \/ /\ height(table, a, FALSE) >= 0
       /\ height(table, a, FALSE) = height(table, b, FALSE)

\* union(&mut storage, &a, &b)
Union(a, b) ==
    /\ CanHold(1)
    /\ SameHeight(IndexOf(a), IndexOf(b))
    /\ Returns(union(Store, IndexOf(a), IndexOf(b), OpFuel))

\* minus(&mut storage, &a, &b)
Minus(a, b) ==
    /\ CanHold(1)
    /\ SameHeight(IndexOf(a), IndexOf(b))
    /\ Returns(minus(Store, IndexOf(a), IndexOf(b), OpFuel))

\* A call that returns no handle to the client.
Inspects(s) ==
    /\ CanCall
    /\ Apply(s)
    /\ handles' = handles
    /\ last' = "none"

\* storage.value(&h)
Value(h) ==
    Inspects(IF debug /\ ~verify_ldd(Store, IndexOf(h)) THEN Panic(Store)
             ELSE [Store EXCEPT !.read_freed = @ \/ ~is_valid(table, IndexOf(h))])

\* storage.get(&h): the client keeps the handles for down and right.
Get(h) ==
    /\ CanHold(2)
    /\ Then(get(Store, IndexOf(h)), LAMBDA g :
            /\ Apply(g.s)
            /\ handles' = IF g.s.panic THEN handles
                          ELSE handles \cup {g.down.root, g.right.root}
            /\ last' = "none")

\* storage.protect(&h)
Protect(h) ==
    /\ CanHold(1)
    /\ Returns(Ldd_new(Store, IndexOf(h)))

\* element_of(&storage, &vector, &h)
ElementOf(vector, h) == Inspects(element_of(Store, vector, IndexOf(h), OpFuel).s)

\* len(&storage, &h)
LenOf(h) == Inspects(len(Store, IndexOf(h), OpFuel).s)

\* for vector in iter(&storage, &h) {}
Iterate(h) == Inspects(iter(Store, IndexOf(h)).s)

HandleStep ==
    \/ \E h \in handles : Clone(h)
    \/ \E h \in handles : Drop(h)
    \/ GarbageCollect
    \/ \E e \in BOOLEAN : EnableGarbageCollection(e)

StoreStep ==
    \/ \E v \in Values, d, r \in Args : Insert(v, d, r)
    \/ \E h \in Args : Down(h)
    \/ \E h \in Args : Right(h)

\* The values down a chain without branches that ends in 'true'; -1 where the
\* chain branches, ends in 'false', or meets a slot that is not filled.
RECURSIVE ChainValues(_, _, _)
ChainValues(t, n, fuel) ==
    IF n = empty_vector THEN <<>>
    ELSE IF n = empty_set \/ fuel = 0 \/ ~is_valid(t, n) \/ At(t, n).right # empty_set
    THEN <<-1>>
    ELSE <<At(t, n).value>> \o ChainValues(t, At(t, n).down, fuel - 1)

Tags(n) == ChainValues(table, n, Len(table))

Count(tags, S) == Cardinality({i \in DOMAIN tags : tags[i] \in S})

\* The height of a set that is not empty.
HasHeight(n, k) == n = empty_set \/ height(table, n, FALSE) = k

\* project(set, proj): proj is a chain of 0 and 1, at most as high as set.
ProjectContract(set, proj) ==
    /\ \A i \in DOMAIN Tags(proj) : Tags(proj)[i] \in {0, 1}
    /\ set = empty_set \/ height(table, set, FALSE) >= Len(Tags(proj))

\* relational_product(set, rel, meta): meta is a chain of tags 0..4 with every
\* 3 followed by its 4; set has a level for every tag but the 4s, rel one for
\* every tag but the 0s.
RelationalProductContract(set, rel, meta) ==
    LET tags == Tags(meta)
    IN /\ \A i \in DOMAIN tags :
             /\ tags[i] \in 0..4
             /\ tags[i] = 3 => i < Len(tags) /\ tags[i + 1] = 4
             /\ tags[i] = 4 => i > 1 /\ tags[i - 1] = 3
       /\ set = empty_set \/ height(table, set, FALSE) >= Count(tags, {0, 1, 2, 3})
       /\ HasHeight(rel, Count(tags, {1, 2, 3, 4}))

\* The lists of indices the client passes to compute_proj and compute_meta.
IndexLists == UNION {[1..n -> 0..(MaxLen - 1)] : n \in 0..MaxIndices}

\* compute_proj(&mut storage, &proj)
ComputeProj(proj) ==
    /\ CanHold(1)
    /\ Returns(compute_proj(Store, proj))

\* compute_meta(&mut storage, &read_proj, &write_proj)
ComputeMeta(read_proj, write_proj) ==
    /\ CanHold(1)
    /\ Returns(compute_meta(Store, read_proj, write_proj))

\* project(&mut storage, &set, &proj)
Project(set, proj) ==
    /\ CanHold(1)
    /\ ProjectContract(IndexOf(set), IndexOf(proj))
    /\ Returns(project(Store, IndexOf(set), IndexOf(proj), OpFuel))

\* relational_product(&mut storage, &set, &rel, &meta)
RelationalProduct(set, rel, meta) ==
    /\ CanHold(1)
    /\ RelationalProductContract(IndexOf(set), IndexOf(rel), IndexOf(meta))
    /\ Returns(relational_product(Store, IndexOf(set), IndexOf(rel), IndexOf(meta), OpFuel))

OpStep ==
    \/ \E v \in Vectors : Singleton(v)
    \/ \E a, b \in handles : Union(a, b)
    \/ \E a, b \in handles : Minus(a, b)
    \/ \E p \in IndexLists : ComputeProj(p)
    \/ \E r, w \in IndexLists : ComputeMeta(r, w)
    \/ \E a, p \in handles : Project(a, p)
    \/ \E a, r, m \in handles : RelationalProduct(a, r, m)

\* cache_comm_binary_op(&mut storage, Union, a.clone(), b.clone(), union)
CachedUnion(a, b) ==
    /\ CanHold(1)
    /\ SameHeight(IndexOf(a), IndexOf(b))
    /\ Returns(Then(Ldd_new(Store, IndexOf(a)), LAMBDA ca :
               Then(Ldd_new(ca.s, IndexOf(b)), LAMBDA cb :
                    cache_comm_binary_op(cb.s, "union", ca.h, cb.h))))

\* cache_binary_op(&mut storage, Minus, a.clone(), b.clone(), minus)
CachedMinus(a, b) ==
    /\ CanHold(1)
    /\ SameHeight(IndexOf(a), IndexOf(b))
    /\ Returns(Then(Ldd_new(Store, IndexOf(a)), LAMBDA ca :
               Then(Ldd_new(ca.s, IndexOf(b)), LAMBDA cb :
                    cache_binary_op(cb.s, "minus", ca.h, cb.h))))

\* cache_terniary_op(&mut storage, RelationalProduct, &set, &rel, &meta,
\* relational_product)
CachedRelationalProduct(set, rel, meta) ==
    /\ CanHold(1)
    /\ RelationalProductContract(IndexOf(set), IndexOf(rel), IndexOf(meta))
    /\ Returns(cache_terniary_op(Store, IndexOf(set), IndexOf(rel), IndexOf(meta)))

\* cache_unary_function(&mut storage, Len, &a, len)
CachedLen(a) ==
    /\ CanCall
    /\ Apply(cache_unary_function(Store, IndexOf(a)).s)
    /\ handles' = handles
    /\ last' = "none"

\* The client of the store: any insert, inspection, handle and collection.
Next == HandleStep \/ StoreStep

Spec == Init /\ [][Next]_vars

\* The client of the operations.
NextOps ==
    \/ \E h \in handles : Drop(h)
    \/ GarbageCollect
    \/ OpStep

SpecOps == Init /\ [][NextOps]_vars

\* The client of the cached operations.
NextCache ==
    \/ \E h \in handles : Drop(h)
    \/ GarbageCollect
    \/ \E v \in Vectors : Singleton(v)
    \/ \E a, b \in handles : CachedUnion(a, b)
    \/ \E a, b \in handles : CachedMinus(a, b)
    \/ \E a \in handles : CachedLen(a)

SpecCache == Init /\ [][NextCache]_vars

\* ---------------------------------------------------------------- notions

\* The (value, down, right) triple of slot n.
Triple(t, n) == <<At(t, n).value, At(t, n).down, At(t, n).right>>

\* The internal (not terminal) slots of the table.
Internal(t) == Indices(t) \ {empty_set, empty_vector}

\* The down and right edges of a node; a terminal has none.
Children(t, n) ==
    IF n = empty_set \/ n = empty_vector THEN {} ELSE {At(t, n).down, At(t, n).right}

\* The slots reachable from S in at most k edges.
RECURSIVE Reachable(_, _, _)
Reachable(t, S, k) ==
    IF k = 0 THEN S ELSE Reachable(t, S \cup UNION {Children(t, n) : n \in S}, k - 1)

\* The slots reachable from S.
ReachableFrom(t, S) == Reachable(t, S, Len(t))

\* [[n]]: the set of vectors node n denotes (cut off below depth `fuel`).
RECURSIVE Denote(_, _, _)
Denote(t, n, fuel) ==
    IF n = empty_set \/ fuel = 0 THEN {}
    ELSE IF n = empty_vector THEN {<<>>}
    ELSE {<<At(t, n).value>> \o x : x \in Denote(t, At(t, n).down, fuel - 1)}
             \cup Denote(t, At(t, n).right, fuel - 1)

\* The set the handle in root slot h denotes.
SetOf(h) == Denote(table, IndexOf(h), 2 * MaxTable)

\* The slots on the node freelist that starts at i.
RECURSIVE FreeListFrom(_, _, _)
FreeListFrom(t, i, seen) ==
    IF i \in seen THEN seen ELSE FreeListFrom(t, At(t, i).right, seen \cup {i})

FreeList(t, fr) == IF fr = None THEN {} ELSE FreeListFrom(t, fr, {})

\* A triple that breaks I1-I4 in table t.
ViolatesI1toI4(t, value, down, right) ==
    \/ down = empty_set
    \/ right = empty_vector
    \/ /\ right \notin {empty_set, empty_vector}
       /\ \/ value >= At(t, right).value
          \/ height(t, down, FALSE) + 1 # height(t, right, FALSE)

\* ------------------------------------------------------------------ claims

\* C1: GC safety over any history. A handle the client keeps across a call
\* still names the same node after it, and the (value, down, right) triple
\* of every internal node reachable from it is the same as before the call.
C1HandlesKeepTheirNodes ==
    [][\A h \in handles \cap handles' :
          /\ roots'[h + 1] = roots[h + 1]
          /\ \A n \in ReachableFrom(table, {IndexOf(h)}) \ {empty_set, empty_vector} :
                At(table', n) = At(table, n)]_vars

\* C2: right after the client's garbage_collect() returns, a slot that was
\* filled before the call is still filled if and only if it is reachable
\* from a valid root over down and right edges.
C2SurvivorsAreTheReachable ==
    [][last' = "garbage_collect" =>
          \A i \in Indices(table) :
              is_valid(table, i) =>
                  (is_valid(table', i) <=> i \in ReachableFrom(table, RootNodes(roots)))]_vars

\* C2 witness: a collection has just freed a slot and kept an internal node.
C2Witness ==
    /\ last = "garbage_collect"
    /\ ~panicked
    /\ \E i \in Internal(table) : ~is_valid(table, i)
    /\ \E i \in Internal(table) : is_valid(table, i)

\* C3: deduplication (I5). No two filled internal slots hold the same
\* (value, down, right) triple.
C3NoDuplicateTriples ==
    \A i, j \in Internal(table) :
        (i # j /\ is_valid(table, i) /\ is_valid(table, j)) => Triple(table, i) # Triple(table, j)

\* C4: canonicity by identity. Two handles of the client denote the same
\* set if and only if they name the same node.
C4SameSetSameIdentity ==
    \A h1, h2 \in handles : (SetOf(h1) = SetOf(h2)) <=> (IndexOf(h1) = IndexOf(h2))

\* C5: every filled internal node satisfies I1-I4.
C5NodesAreCanonical ==
    \A i \in Internal(table) :
        is_valid(table, i) =>
            ~ViolatesI1toI4(table, At(table, i).value, At(table, i).down, At(table, i).right)

\* C6: protection discipline inside the operations. No call has read a slot
\* that is not filled or passed one to insert, and every valid root names a
\* filled slot.
C6ProtectionDiscipline ==
    /\ ~flags.read_freed
    /\ ~flags.insert_freed
    /\ \A r \in DOMAIN roots : roots[r].valid => is_valid(table, roots[r].value)

\* C6 witness: a collection ran at the safepoint of an insert inside the last
\* operation, freed a slot, and the operation returned its result.
C6Witness ==
    /\ last = "safepoint"
    /\ ~panicked
    /\ handles # {}
    /\ \E i \in Internal(table) : ~is_valid(table, i)

C8TerminalsStay ==
    /\ is_valid(table, empty_set)
    /\ is_valid(table, empty_vector)
    /\ ~panicked =>
          Then(garbage_collect(Store), LAMBDA g :
               /\ is_valid(g.table, empty_set)
               /\ is_valid(g.table, empty_vector)
               /\ FreeList(g.table, g.free) \cap {empty_set, empty_vector}
                      \subseteq FreeList(table, free))

\* C8 witness: the client has dropped every handle and a collection has run.
C8Witness ==
    /\ last = "garbage_collect"
    /\ handles = {}
    /\ \E i \in Internal(table) : ~is_valid(table, i)

CachedIdentities ==
    {e[1] : e \in cache.c1}
        \cup UNION {{e[1][1], e[1][2], e[2]} : e \in cache.union \cup cache.minus}
        \cup UNION {{e[1][1], e[1][2], e[1][3], e[2]} : e \in cache.c3}

\* C9: cache coherence. Every identity in a cache names a filled slot that
\* holds the node the cached operation met there.
C9CachedNodesStay ==
    /\ \A i \in CachedIdentities : is_valid(table, i)
    /\ \A e \in cache.nodes : At(table, e[1]) = e[2]


\* ------------------------------------------------------------- the counter

\* The counter an insert allocates under: reset to the length of the table
\* where the insert found it at zero.
CountAtAllocation == IF count_until_collection = 0 THEN Len(table)
                     ELSE count_until_collection

\* A filled slot already holds the triple.
Existing(value, down, right) ==
    \E i \in Indices(table) :
        is_valid(table, i) /\ Triple(table, i) = <<value, down, right>>

\* An insert that finds the counter at zero collects exactly where collection
\* is enabled.
CollectsAtZero ==
    (last' = "safepoint") <=>
        (count_until_collection = 0 /\ enable_garbage_collection)

NextPolicy ==
    \/ \E e \in BOOLEAN : EnableGarbageCollection(e)
    \/ \E h \in handles : Drop(h)
    \/ GarbageCollect
    \/ \E v \in Vectors : Singleton(v)
    \/ \E a, b \in handles : CachedUnion(a, b)

SpecPolicy == Init /\ [][NextPolicy]_vars

\* No filled slot is freed and no cache entry is removed.
NothingReclaimed ==
    /\ \A i \in Indices(table) : is_valid(table, i) => is_valid(table', i)
    /\ \A k \in {"c1", "union", "minus", "c3"} : cache[k] \subseteq cache'[k]

\* C12: while collection is disabled no call but garbage_collect() frees a
\* slot or clears a cache, whatever the counter says, and garbage_collect()
\* still leaves no slot filled that the roots do not reach.
C12DisabledCollectsOnlyOnRequest ==
    [][~enable_garbage_collection =>
          /\ last' # "safepoint"
          /\ last' # "garbage_collect" => NothingReclaimed
          /\ last' = "garbage_collect" =>
                 /\ cache' = EmptyCache
                 /\ \A i \in Indices(table') :
                        is_valid(table', i) =>
                            i \in ReachableFrom(table, RootNodes(roots))]_vars

\* An insert inside an operation found the counter at zero with collection
\* disabled, and left the garbage and the cache in place.
C12Witness ==
    /\ last = "skipped"
    /\ ~enable_garbage_collection
    /\ cache.union # {}
    /\ \E i \in Indices(table) :
           is_valid(table, i) /\ i \notin ReachableFrom(table, RootNodes(roots))

\* The client's garbage_collect() ran with collection disabled and freed a
\* slot.
C12WitnessExplicit ==
    /\ last = "garbage_collect"
    /\ ~enable_garbage_collection
    /\ free # None


\* ------------------------------------------------------ calls that inspect

\* The calls that read the store or move handles.
ReadStep ==
    \/ \E h \in handles : Value(h)
    \/ \E h \in handles : Down(h)
    \/ \E h \in handles : Right(h)
    \/ \E h \in handles : Get(h)
    \/ \E h \in handles : Protect(h)
    \/ \E h \in handles : Clone(h)
    \/ \E h \in handles : Drop(h)
    \/ \E v \in Vectors, h \in handles : ElementOf(v, h)
    \/ \E h \in handles : LenOf(h)
    \/ \E h \in handles : Iterate(h)

\* A client that builds sets, collects and inspects.
NextRead ==
    \/ steps < MaxReadSteps /\ ReadStep
    \/ steps < MaxReadSteps /\ GarbageCollect
    \/ \E v \in Vectors : steps < MaxReadSteps /\ Singleton(v)
    \/ \E a, b \in handles : steps < MaxReadSteps /\ Union(a, b)

SpecRead == Init /\ [][NextRead]_vars

\* C13: get, value, down, right, protect, clone, drop, element_of, len and
\* iteration leave the filled flags and the triples of the node table, the
\* node freelist and the caches as they were.
C13ReadsLeaveTheTable ==
    [][\/ (table' = table /\ free' = free /\ cache' = cache)
       \/ ~ReadStep]_vars

\* A handle was dropped while the table held a node next to the terminals.
C13Witness ==
    /\ Len(table) > 2
    /\ handles = {}
    /\ steps > 0
    /\ last = "none"
    /\ ~panicked


\* ----------------------------------------------------- the protection set

\* The live root slots.
Live(rs) == {r \in 0 .. Len(rs) - 1 : rs[r + 1].valid}

\* Every slot of the protection set but r is as it was.
OthersKept(r) ==
    \A x \in (DOMAIN roots) \ {r + 1} : x \in DOMAIN roots' /\ roots'[x] = roots[x]

\* C14: cloning a handle to n makes exactly one slot that was not live a live
\* slot with value n, dropping a handle makes exactly its own slot non-live,
\* every other slot is as it was; the live slots are the slots of the live
\* handles, so the live slots that name n are as many as the handles to n.
C14HandleLifecycle ==
    [][/\ \A h \in handles :
             Clone(h) =>
                 \E r \in Live(roots') \ Live(roots) :
                     /\ roots'[r + 1].value = IndexOf(h)
                     /\ Live(roots') = Live(roots) \cup {r}
                     /\ handles' = handles \cup {r}
                     /\ OthersKept(r)
       /\ \A h \in handles :
             Drop(h) =>
                 /\ Live(roots') = Live(roots) \ {h}
                 /\ Len(roots') = Len(roots)
                 /\ OthersKept(h)
       /\ ~panicked' =>
             /\ Live(roots') = handles' \cup OwnRoots
             /\ \A n \in Indices(table') :
                    Cardinality({r \in Live(roots') : roots'[r + 1].value = n})
                        = Cardinality({h \in handles' \cup OwnRoots : IndexOf(h)' = n})]_vars

\* The client holds two handles to one node, one of them in a slot that an
\* earlier drop had freed.
C14Witness ==
    /\ ~panicked
    /\ \E g, h \in handles : g < h /\ IndexOf(g) = IndexOf(h) /\ IndexOf(g) > empty_vector
    /\ \E r \in 0 .. Len(roots) - 1 : ~roots[r + 1].valid
    /\ \E h \in handles : \E r \in 0 .. Len(roots) - 1 : ~roots[r + 1].valid /\ h < r

\* The slots the root freelist visits from slot r: it follows the values of
\* the slots to a slot that names itself.
RECURSIVE RootFreeListFrom(_, _, _)
RootFreeListFrom(rs, r, fuel) ==
    IF fuel = 0 \/ r < 0 \/ r >= Len(rs) THEN <<>>
    ELSE IF rs[r + 1].value = r THEN <<r>>
    ELSE <<r>> \o RootFreeListFrom(rs, rs[r + 1].value, fuel - 1)

RootFreeList(rs, head) ==
    IF head = None THEN <<>> ELSE RootFreeListFrom(rs, head, Len(rs) + 1)

\* The root freelist visits exactly the slots that are not live, each once,
\* and ends at a slot that names itself.
RootFreeListWellFormed(rs, head) ==
    LET q == RootFreeList(rs, head)
    IN /\ {q[i] : i \in DOMAIN q} = (0 .. Len(rs) - 1) \ Live(rs)
       /\ Cardinality({q[i] : i \in DOMAIN q}) = Len(q)
       /\ q # <<>> => rs[q[Len(q)] + 1].value = q[Len(q)]

\* C15: the freelist of the protection set is well formed in every state, and
\* protect reuses its head where it is not empty and appends a slot only
\* where it is empty.
C15RootFreeList ==
    /\ []RootFreeListWellFormed(roots, ps_free)
    /\ [][\A h \in handles :
              Clone(h) =>
                  IF ps_free = None
                  THEN Len(roots') = Len(roots) + 1 /\ handles' = handles \cup {Len(roots)}
                  ELSE Len(roots') = Len(roots) /\ handles' = handles \cup {ps_free}]_vars

\* Two root slots are on the freelist, the head not the one freed first.
C15Witness ==
    /\ ps_free # None
    /\ Len(RootFreeList(roots, ps_free)) >= 2
    /\ \E h \in handles : h > ps_free


\* ------------------------------------------------- the operation tests

\* test_utility::from_iter: the loop over the vectors q, `result` the handle
\* of the set so far.
RECURSIVE FromIterLoop(_, _, _)
FromIterLoop(s, result, q) ==
    IF Stopped(s) \/ q = <<>> THEN [s |-> s, h |-> result]
    ELSE Then(singleton(s, Head(q)), LAMBDA single :
         Then(union(single.s, result.index, single.h.index, OpFuel), LAMBDA u :
              FromIterLoop(Ldd_drop(Ldd_drop(u.s, result), single.h), u.h, Tail(q))))

\* test_utility::from_iter
from_iter(s, q) ==
    Then(Ldd_new(s, empty_set), LAMBDA e : FromIterLoop(e.s, e.h, q))

\* The elements of a sequence.
Range(q) == {q[i] : i \in DOMAIN q}

\* The iterations of the sets of at most MaxSet elements of S: the sequences
\* without repetition.
Iterations(S) ==
    UNION {{q \in [1..n -> S] : \A i, j \in 1..n : i # j => q[i] # q[j]} :
              n \in 0..MaxSet}

\* The vectors of length k.
VectorsOf(k) == [1..k -> Values]

\* The vectors a test asks element_of about: one longer than the longest of
\* the sets.
TestVectors == UNION {VectorsOf(k) : k \in 0..MaxLen + 1}

\* The store of a test.
TestStore == [Store EXCEPT !.cap = MaxNodes]

\* The state after a test that left the store as s, holds the handles hs and
\* has observed `seen`.
Observed(s, hs, seen) ==
    /\ ~s.ovf
    /\ Commit(s)
    /\ handles' = IF s.panic THEN handles ELSE {h.root : h \in hs}
    /\ last' = "none"
    /\ test' = seen

\* Two sets of vectors of one length, in the order they are iterated.
InitPairs ==
    /\ StorageNew
    /\ \E k \in 0..MaxLen : \E A, B \in Iterations(VectorsOf(k)) :
           test = [NoTest EXCEPT !.op = "input", !.A = A, !.B = B]

\* A set and a vector.
InitMembers ==
    /\ StorageNew
    /\ \E k \in 0..MaxLen : \E A \in Iterations(VectorsOf(k)) : \E v \in TestVectors :
           test = [NoTest EXCEPT !.op = "input", !.A = A, !.v = v]

\* tests::random_union: set_a.union(&set_b) iterates set_a and then the
\* elements of set_b that are not in set_a.
TestUnion ==
    /\ test.op = "input"
    /\ Then(from_iter(TestStore, test.A), LAMBDA a :
       Then(from_iter(a.s, test.B), LAMBDA b :
       Then(union(b.s, a.h.index, b.h.index, OpFuel), LAMBDA result :
       Then(from_iter(result.s,
                      test.A \o SelectSeq(test.B, LAMBDA x : x \notin Range(test.A))),
       LAMBDA expected :
            Observed(expected.s, {a.h, b.h, result.h, expected.h},
                     [test EXCEPT !.op = "union", !.result = result.h.index,
                                  !.expected = expected.h.index])))))

\* tests::random_minus
TestMinus ==
    /\ test.op = "input"
    /\ Then(from_iter(TestStore, test.A), LAMBDA a :
       Then(from_iter(a.s, test.B), LAMBDA b :
       Then(minus(b.s, a.h.index, b.h.index, OpFuel), LAMBDA result :
       Then(from_iter(result.s, SelectSeq(test.A, LAMBDA x : x \notin Range(test.B))),
       LAMBDA expected :
            Observed(expected.s, {a.h, b.h, result.h, expected.h},
                     [test EXCEPT !.op = "minus", !.result = result.h.index,
                                  !.expected = expected.h.index])))))

\* tests::random_element_of
TestElementOf ==
    /\ test.op = "input"
    /\ Then(from_iter(TestStore, test.A), LAMBDA ldd :
       Then(element_of(ldd.s, test.v, ldd.h.index, OpFuel), LAMBDA e :
            Observed(e.s, {ldd.h},
                     [test EXCEPT !.op = "element_of", !.result = ldd.h.index,
                                  !.b = e.b])))

\* tests::random_len
TestLen ==
    /\ test.op = "input"
    /\ test.v = <<>>
    /\ Then(from_iter(TestStore, test.A), LAMBDA ldd :
       Then(len(ldd.s, ldd.h.index, OpFuel), LAMBDA l :
            Observed(l.s, {ldd.h},
                     [test EXCEPT !.op = "len", !.result = ldd.h.index, !.n = l.n])))

\* tests::random_singleton, with the iteration run to its end.
TestSingleton ==
    /\ test.op = "input"
    /\ test.A = <<>>
    /\ Then(singleton(TestStore, test.v), LAMBDA ldd :
       Then(iter(ldd.s, ldd.h.index), LAMBDA it :
            Observed(it.s, {ldd.h},
                     [test EXCEPT !.op = "singleton", !.result = ldd.h.index,
                                  !.out = it.out])))

\* tests::random_iter: the iteration run to its end, and len of the same LDD.
TestIter ==
    /\ test.op = "input"
    /\ test.v = <<>>
    /\ Then(from_iter(TestStore, test.A), LAMBDA ldd :
       Then(iter(ldd.s, ldd.h.index), LAMBDA it :
       Then(len(it.s, ldd.h.index, OpFuel), LAMBDA l :
            Observed(l.s, {ldd.h},
                     [test EXCEPT !.op = "iter", !.result = ldd.h.index,
                                  !.out = it.out, !.n = l.n]))))

\* union and minus with equal operands and with 'false': out lists the
\* identities returned by union(x, x), union(x, false), union(false, x),
\* minus(x, false), minus(x, x) and minus(false, x); b says that the six calls
\* left the node table, its freelist and the counter as they were.
TestLaws ==
    /\ test.op = "input"
    /\ test.v = <<>>
    /\ Then(from_iter(TestStore, test.A), LAMBDA x :
       Then(union(x.s, x.h.index, x.h.index, OpFuel), LAMBDA u1 :
       Then(union(u1.s, x.h.index, empty_set, OpFuel), LAMBDA u2 :
       Then(union(u2.s, empty_set, x.h.index, OpFuel), LAMBDA u3 :
       Then(minus(u3.s, x.h.index, empty_set, OpFuel), LAMBDA m1 :
       Then(minus(m1.s, x.h.index, x.h.index, OpFuel), LAMBDA m2 :
       Then(minus(m2.s, empty_set, x.h.index, OpFuel), LAMBDA m3 :
            Observed(m3.s, {x.h, u1.h, u2.h, u3.h, m1.h, m2.h, m3.h},
                     [test EXCEPT
                         !.op = "laws", !.result = x.h.index,
                         !.out = <<u1.h.index, u2.h.index, u3.h.index,
                                   m1.h.index, m2.h.index, m3.h.index>>,
                         !.b = /\ m3.s.table = x.s.table
                               /\ m3.s.free = x.s.free
                               /\ m3.s.count = x.s.count]))))))))

\* The lists of indices of a test, in any order and with repetitions.
TestLists == UNION {[1..n -> 0..MaxIndex] : n \in 0..MaxList}

\* Two lists of indices.
InitGuides ==
    /\ StorageNew
    /\ \E r, w \in TestLists : test = [NoTest EXCEPT !.op = "input", !.read = r, !.write = w]

\* compute_proj of the two lists, one after the other.
TestComputeProj ==
    /\ test.op = "input"
    /\ Then(compute_proj(TestStore, test.read), LAMBDA p :
       Then(compute_proj(p.s, test.write), LAMBDA q :
            Observed(q.s, {p.h, q.h},
                     [test EXCEPT !.op = "compute_proj", !.result = p.h.index,
                                  !.expected = q.h.index])))

\* compute_meta of the two lists.
TestComputeMeta ==
    /\ test.op = "input"
    /\ Then(compute_meta(TestStore, test.read, test.write), LAMBDA m :
            Observed(m.s, {m.h},
                     [test EXCEPT !.op = "compute_meta", !.result = m.h.index]))

NextGuides == TestComputeProj \/ TestComputeMeta

SpecGuides == InitGuides /\ [][NextGuides]_vars

\* The indices of S in ascending order.
RECURSIVE Sorted(_)
Sorted(S) ==
    IF S = {} THEN <<>>
    ELSE LET m == CHOOSE x \in S : \A y \in S : y <= x
         IN Append(Sorted(S \ {m}), m)

\* test_utility::project_vector
project_vector(vector, proj) == [j \in 1..Len(proj) |-> vector[proj[j] + 1]]

\* The elements of q in order, each once: the iteration of the HashSet the
\* elements were inserted into.
RECURSIVE Once(_)
Once(q) ==
    IF q = <<>> THEN <<>>
    ELSE LET front == Once(Popped(q))
         IN IF q[Len(q)] \in Range(front) THEN front ELSE Append(front, q[Len(q)])

\* A set of vectors of length n and a sorted list of indices below n.
InitProject ==
    /\ StorageNew
    /\ \E k \in 0..MaxLen : \E A \in Iterations(VectorsOf(k)) :
       \E I \in SUBSET (0..k - 1) :
           test = [NoTest EXCEPT !.op = "input", !.A = A, !.n = k, !.read = Sorted(I)]

\* tests::random_project
TestProject ==
    /\ test.op = "input"
    /\ Then(from_iter(TestStore, test.A), LAMBDA ldd :
       Then(compute_proj(ldd.s, test.read), LAMBDA proj_ldd :
       Then(project(proj_ldd.s, ldd.h.index, proj_ldd.h.index, OpFuel), LAMBDA result :
       Then(from_iter(result.s,
                      Once([i \in DOMAIN test.A |-> project_vector(test.A[i], test.read)])),
       LAMBDA expected :
            Observed(expected.s, {ldd.h, proj_ldd.h, result.h, expected.h},
                     [test EXCEPT !.op = "project", !.result = result.h.index,
                                  !.expected = expected.h.index])))))

\* tests::random_readonly_relational_product
TestReadOnly ==
    /\ test.op = "input"
    /\ Then(from_iter(TestStore, test.A), LAMBDA ldd :
       Then(compute_meta(ldd.s, test.read, <<>>), LAMBDA meta :
       Then(compute_proj(meta.s, test.read), LAMBDA proj_ldd :
       Then(project(proj_ldd.s, ldd.h.index, proj_ldd.h.index, OpFuel), LAMBDA relation :
       Then(relational_product(relation.s, ldd.h.index, relation.h.index,
                               meta.h.index, OpFuel),
       LAMBDA result :
       Then(project(result.s, result.h.index, proj_ldd.h.index, OpFuel),
       LAMBDA read_project :
            Observed(read_project.s,
                     {ldd.h, meta.h, proj_ldd.h, relation.h, result.h, read_project.h},
                     [test EXCEPT !.op = "readonly", !.result = read_project.h.index,
                                  !.expected = relation.h.index])))))))

\* tests::random_writeonly_relational_product
TestWriteOnly ==
    /\ test.op = "input"
    /\ Then(from_iter(TestStore, test.A), LAMBDA ldd :
       Then(compute_meta(ldd.s, <<>>, test.read), LAMBDA meta :
       Then(compute_proj(meta.s, test.read), LAMBDA proj_ldd :
       Then(project(proj_ldd.s, ldd.h.index, proj_ldd.h.index, OpFuel), LAMBDA relation :
       Then(relational_product(relation.s, ldd.h.index, relation.h.index,
                               meta.h.index, OpFuel),
       LAMBDA result :
       Then(project(result.s, result.h.index, proj_ldd.h.index, OpFuel),
       LAMBDA write_project :
            Observed(write_project.s,
                     {ldd.h, meta.h, proj_ldd.h, relation.h, result.h, write_project.h},
                     [test EXCEPT !.op = "writeonly", !.result = write_project.h.index,
                                  !.expected = relation.h.index])))))))

NextProject == TestProject \/ TestReadOnly \/ TestWriteOnly

SpecProject == InitProject /\ [][NextProject]_vars

\* The iterations of the sets of at most MaxRelSet elements of S.
RelIterations(S) ==
    UNION {{q \in [1..n -> S] : \A i, j \in 1..n : i # j => q[i] # q[j]} :
              n \in 0..MaxRelSet}

\* A set of vectors of length n, sorted lists of read and of write indices
\* below n, and a relation of vectors with one value for every read and every
\* write index.
InitRelation ==
    /\ StorageNew
    /\ \E k \in 0..MaxLen : \E A \in RelIterations(VectorsOf(k)) :
       \E R, W \in SUBSET (0..k - 1) :
       \E B \in RelIterations(VectorsOf(Cardinality(R) + Cardinality(W))) :
           test = [NoTest EXCEPT !.op = "input", !.A = A, !.B = B, !.n = k,
                                 !.read = Sorted(R), !.write = Sorted(W)]

\* tests::random_relational_product, the loop for read_rel_proj and
\* write_rel_proj: the places in a vector of the relation of the values for
\* the read and for the write indices, from level i on.
RECURSIVE RelProjLoop(_, _, _, _, _, _, _)
RelProjLoop(read_proj, write_proj, i, n, current, read_rel_proj, write_rel_proj) ==
    IF i >= n THEN [read |-> read_rel_proj, write |-> write_rel_proj]
    ELSE LET reads == Contains(read_proj, i)
             writes == Contains(write_proj, i)
             after_read == IF reads THEN current + 1 ELSE current
         IN RelProjLoop(read_proj, write_proj, i + 1, n,
                        IF writes THEN after_read + 1 ELSE after_read,
                        IF reads THEN Append(read_rel_proj, current) ELSE read_rel_proj,
                        IF writes THEN Append(write_rel_proj, after_read)
                        ELSE write_rel_proj)

\* tests::random_relational_product, the computation of the LDD result.
TestRelationalProduct ==
    /\ test.op = "input"
    /\ Then(from_iter(TestStore, test.A), LAMBDA ldd :
       Then(from_iter(ldd.s, test.B), LAMBDA rel :
       Then(compute_meta(rel.s, test.read, test.write), LAMBDA meta :
       Then(relational_product(meta.s, ldd.h.index, rel.h.index, meta.h.index, MaxNodes),
       LAMBDA result :
            Observed(result.s, {ldd.h, rel.h, meta.h, result.h},
                     [test EXCEPT !.op = "product", !.result = result.h.index])))))

\* relational_product at its terminal rules: with the meta 'true', with the
\* set 'false' and with the relation 'false'. `b` tells that each call left
\* the store as the one clone of its result leaves it.
TestTerminal ==
    /\ test.op = "input"
    /\ Then(from_iter(TestStore, test.A), LAMBDA ldd :
       Then(from_iter(ldd.s, test.B), LAMBDA rel :
       Then(compute_meta(rel.s, test.read, test.write), LAMBDA meta :
       Then(relational_product(meta.s, ldd.h.index, rel.h.index, empty_vector, MaxNodes),
       LAMBDA passed :
       Then(relational_product(passed.s, empty_set, rel.h.index, meta.h.index, MaxNodes),
       LAMBDA no_set :
       Then(relational_product(no_set.s, ldd.h.index, empty_set, meta.h.index, MaxNodes),
       LAMBDA no_rel :
            Observed(no_rel.s, {ldd.h, rel.h, meta.h, passed.h, no_set.h, no_rel.h},
                     [test EXCEPT !.op = "terminal",
                                  !.result = meta.h.index,
                                  !.expected = ldd.h.index,
                                  !.out = <<passed.h.index, no_set.h.index,
                                            no_rel.h.index>>,
                                  !.b = /\ passed.s = Ldd_new(meta.s, ldd.h.index).s
                                        /\ no_set.s = Ldd_new(passed.s, empty_set).s
                                        /\ no_rel.s =
                                             Ldd_new(no_set.s,
                                                     IF meta.h.index = empty_vector
                                                     THEN ldd.h.index
                                                     ELSE empty_set).s])))))))

NextRelation == TestRelationalProduct \/ TestTerminal

SpecRelation == InitRelation /\ [][NextRelation]_vars

\* ------------------------------------------------- the reachability driver

\* The nodes of a file in the Sylvan format for the set V of vectors of one
\* length, after the nodes `nodes` of the file so far: a node follows its down
\* and its right, and the node at place k of the file has the index k + 1.
\* `index` is the index of the LDD of V: 0 for 'false', 1 for 'true'.
RECURSIVE FileSet(_, _)
RECURSIVE FileChain(_, _, _, _)
FileSet(V, nodes) ==
    IF V = {} THEN [nodes |-> nodes, index |-> 0]
    ELSE IF V = {<<>>} THEN [nodes |-> nodes, index |-> 1]
    ELSE FileChain(V, {Head(x) : x \in V}, 0, nodes)

FileChain(V, values, right, nodes) ==
    IF values = {} THEN [nodes |-> nodes, index |-> right]
    ELSE LET v == CHOOSE x \in values : \A y \in values : y <= x
             d == FileSet({Tail(x) : x \in {y \in V : Head(y) = v}}, nodes)
         IN FileChain(V, values \ {v}, Len(d.nodes) + 2,
                      Append(d.nodes, [value |-> v, down |-> d.index, right |-> right]))

\* SylvanReader::new; indexed_set[k] is the LDD of the index k + 1.
SylvanReaderNew == [indexed_set |-> <<>>, last_index |-> 2]

\* SylvanReader::node_from_index
node_from_index(s, reader, index) ==
    IF Stopped(s) THEN [s |-> s, h |-> NoHandle]
    ELSE IF index = 0 THEN Ldd_new(s, empty_set)
    ELSE IF index = 1 THEN Ldd_new(s, empty_vector)
    ELSE IF index - 1 \in DOMAIN reader.indexed_set
    THEN Ldd_new(s, reader.indexed_set[index - 1].index)
    ELSE [s |-> Panic(s), h |-> NoHandle]

\* SylvanReader::read_ldd, the loop over the nodes of the file from place i on.
RECURSIVE ReadLddLoop(_, _, _, _)
ReadLddLoop(s, reader, nodes, i) ==
    IF Stopped(s) \/ i > Len(nodes) THEN [s |-> s, reader |-> reader]
    ELSE Then(node_from_index(s, reader, nodes[i].down), LAMBDA down :
         Then(node_from_index(down.s, reader, nodes[i].right), LAMBDA right :
         Then(insert(right.s, nodes[i].value, down.h.index, right.h.index), LAMBDA ldd :
              ReadLddLoop(DropAll(ldd.s, <<right.h, down.h>>),
                          [indexed_set |-> Append(reader.indexed_set, ldd.h),
                           last_index |-> reader.last_index + 1],
                          nodes, i + 1))))

\* SylvanReader::read_ldd for the nodes of one LDD of the file and the index
\* `result` that follows them; the index is looked up in indexed_set only.
read_ldd(s, reader, nodes, result) ==
    Then(ReadLddLoop(s, reader, nodes, 1), LAMBDA r :
         IF Stopped(r.s) THEN [s |-> r.s, reader |-> r.reader, h |-> NoHandle]
         ELSE IF result - 1 \in DOMAIN r.reader.indexed_set
         THEN Then(Ldd_new(r.s, r.reader.indexed_set[result - 1].index), LAMBDA c :
                   [s |-> c.s, reader |-> r.reader, h |-> c.h])
         ELSE [s |-> Panic(r.s), reader |-> r.reader, h |-> NoHandle])

\* load_model, the length of a meta: the larger of the two largest indices,
\* 0 for no index.
MetaLength(read_proj, write_proj) ==
    LET r == IF read_proj = <<>> THEN 0 ELSE GuideLength(read_proj) - 1
        w == IF write_proj = <<>> THEN 0 ELSE GuideLength(write_proj) - 1
    IN IF r > w THEN r ELSE w

\* load_model, the first loop over the transition groups from group i on: the
\* relation is 'false' for now and the meta is a vector of `length` zeros.
RECURSIVE LoadMetas(_, _, _, _)
LoadMetas(s, groups, i, transitions) ==
    IF Stopped(s) \/ i > Len(groups) THEN [s |-> s, transitions |-> transitions]
    ELSE Then(Ldd_new(s, empty_set), LAMBDA relation :
         Then(singleton(relation.s,
                        [k \in 1..MetaLength(groups[i].read, groups[i].write) |-> 0]),
         LAMBDA meta :
              LoadMetas(meta.s, groups, i + 1,
                        Append(transitions, [relation |-> relation.h, meta |-> meta.h]))))

\* load_model, the second loop: the relation of group i and of the groups
\* after it is read from the file and replaces the 'false' of the first loop.
RECURSIVE LoadRelations(_, _, _, _, _)
LoadRelations(s, reader, ldds, i, transitions) ==
    IF Stopped(s) \/ i > Len(transitions)
    THEN [s |-> s, reader |-> reader, transitions |-> transitions]
    ELSE Then(read_ldd(s, reader, ldds[i + 1].nodes, ldds[i + 1].result), LAMBDA r :
              LoadRelations(Ldd_drop(r.s, transitions[i].relation), r.reader, ldds, i + 1,
                            [transitions EXCEPT ![i].relation = r.h]))

\* load_model for a file with the LDDs `ldds`, the first the initial state and
\* the others the relations, and the read and write indices `groups`. The
\* reader and the LDDs of its indexed_set are dropped at the end, here in the
\* order of their indices.
load_model(s, ldds, groups) ==
    Then(read_ldd(s, SylvanReaderNew, ldds[1].nodes, ldds[1].result),
    LAMBDA initial_state :
    Then(LoadMetas(initial_state.s, groups, 1, <<>>), LAMBDA metas :
    Then(LoadRelations(metas.s, initial_state.reader, ldds, 1, metas.transitions),
    LAMBDA loaded :
         [s |-> DropAll(loaded.s, loaded.reader.indexed_set),
          initial_state |-> initial_state.h,
          transitions |-> loaded.transitions])))

\* The loop over the transitions in run, from transition i on: todo1 becomes
\* the union of itself and the product of todo with the transition.
RECURSIVE Successors(_, _, _, _, _)
Successors(s, todo, transitions, i, todo1) ==
    IF Stopped(s) \/ i > Len(transitions) THEN [s |-> s, h |-> todo1]
    ELSE Then(relational_product(s, todo.index, transitions[i].relation.index,
                                 transitions[i].meta.index, MaxNodes),
         LAMBDA result :
         Then(union(result.s, todo1.index, result.h.index, MaxNodes), LAMBDA u :
              Successors(DropAll(u.s, <<todo1, result.h>>), todo, transitions, i + 1,
                         u.h)))

\* One iteration of the loop in run with todo1 as the new todo, the states
\* found before not taken out of it.
IterationKeepsFound(s, todo, states, transitions) ==
    Then(Ldd_new(s, empty_set), LAMBDA e :
    Then(Successors(e.s, todo, transitions, 1, e.h), LAMBDA todo1 :
    Then(Ldd_new(todo1.s, todo1.h.index), LAMBDA new_todo :
    Then(Ldd_drop(new_todo.s, todo), LAMBDA dropped :
    Then(union(dropped, states.index, new_todo.h.index, MaxNodes), LAMBDA new_states :
         [s |-> DropAll(new_states.s, <<states, todo1.h>>),
          todo |-> new_todo.h,
          states |-> new_states.h])))))

\* One iteration of the loop in run.
Iteration(s, todo, states, transitions) ==
    Then(Ldd_new(s, empty_set), LAMBDA e :
    Then(Successors(e.s, todo, transitions, 1, e.h), LAMBDA todo1 :
    Then(minus(todo1.s, todo1.h.index, states.index, MaxNodes), LAMBDA new_todo :
    Then(Ldd_drop(new_todo.s, todo), LAMBDA dropped :
    Then(union(dropped, states.index, new_todo.h.index, MaxNodes), LAMBDA new_states :
         [s |-> DropAll(new_states.s, <<states, todo1.h>>),
          todo |-> new_todo.h,
          states |-> new_states.h])))))

\* The sets of at most n elements of S.
SetsUpTo(S, n) == {V \in SUBSET S : Cardinality(V) <= n}

\* The transition groups of a file for vectors of length k: sorted read and
\* write indices and a relation with one value for each of them.
FileGroups(k) ==
    UNION {{[read |-> Sorted(R), write |-> Sorted(W), relation |-> B] :
               B \in SetsUpTo(VectorsOf(Cardinality(R) + Cardinality(W)), MaxRelation)} :
           <<R, W>> \in (SUBSET (0..k - 1)) \X (SUBSET (0..k - 1))}

\* The number of indices in the groups of a file.
RECURSIVE FileIndices(_)
FileIndices(groups) ==
    IF groups = <<>> THEN 0
    ELSE Len(Head(groups).read) + Len(Head(groups).write) + FileIndices(Tail(groups))

\* The LDDs of the file: the initial state, then the relation of every group.
RECURSIVE FileLdds(_, _, _)
FileLdds(sets, nodes, ldds) ==
    IF sets = <<>> THEN ldds
    ELSE LET f == FileSet(Head(sets), nodes)
         IN FileLdds(Tail(sets), f.nodes,
                     Append(ldds, [nodes |-> SubSeq(f.nodes, Len(nodes) + 1, Len(f.nodes)),
                                   result |-> f.index]))

\* The driver before it has read its file: the file holds an initial set of
\* vectors of length n and some transition groups.
NoReach == [op |-> "file", n |-> 0, initial |-> {}, groups |-> <<>>,
            todo |-> NoHandle, states |-> NoHandle, transitions |-> <<>>,
            iteration |-> 0, before |-> {}, previous |-> {}, count |-> 0]

InitReach ==
    /\ StorageNew
    /\ \E k \in 1..MaxLen : \E V \in SetsUpTo(VectorsOf(k), MaxInitial) :
       \E g \in 0..MaxGroups : \E groups \in [1..g -> FileGroups(k)] :
           /\ FileIndices(groups) <= MaxFileIndices
           /\ test = [NoReach EXCEPT !.n = k, !.initial = V, !.groups = groups]

\* run up to its loop: load_model, `todo = initial_state.clone()` and
\* `states = initial_state`.
LoadModel ==
    /\ test.op = "file"
    /\ Then(load_model(TestStore,
                       FileLdds(<<test.initial>>
                                    \o [i \in DOMAIN test.groups |-> test.groups[i].relation],
                                <<>>, <<>>),
                       test.groups),
       LAMBDA model :
       Then(Ldd_new(model.s, model.initial_state.index), LAMBDA todo :
            Observed(todo.s,
                     {todo.h, model.initial_state}
                         \cup {model.transitions[i].relation : i \in DOMAIN model.transitions}
                         \cup {model.transitions[i].meta : i \in DOMAIN model.transitions},
                     IF todo.s.panic THEN [test EXCEPT !.op = "panic"]
                     ELSE [test EXCEPT !.op = "loop", !.todo = todo.h,
                                       !.states = model.initial_state,
                                       !.transitions = model.transitions,
                                       !.before = Denote(todo.s.table,
                                                         model.initial_state.index, OpFuel),
                                       !.previous = {}])))

\* One iteration of `while todo != *storage.empty_set()`. `previous` is what
\* states denoted before the iteration and `before` what it denotes after.
RunIteration ==
    /\ test.op = "loop"
    /\ test.todo.index # empty_set
    /\ test.iteration < MaxIterations
    /\ Then(Iteration(TestStore, test.todo, test.states, test.transitions), LAMBDA it :
            /\ ~it.s.ovf
            /\ Commit(it.s)
            /\ handles' = IF it.s.panic THEN handles
                          ELSE (handles \ {test.todo.root, test.states.root})
                                   \cup {it.todo.root, it.states.root}
            /\ last' = "none"
            /\ test' = IF it.s.panic THEN [test EXCEPT !.op = "panic"]
                       ELSE [test EXCEPT !.todo = it.todo, !.states = it.states,
                                         !.iteration = @ + 1,
                                         !.previous = test.before,
                                         !.before = Denote(it.s.table, it.states.index,
                                                           OpFuel)])

\* The end of run: the loop is left and the states are counted.
RunExit ==
    /\ test.op = "loop"
    /\ test.todo.index = empty_set
    /\ Then(len(TestStore, test.states.index, MaxNodes), LAMBDA counted :
            /\ ~counted.s.ovf
            /\ Commit(counted.s)
            /\ handles' = handles
            /\ last' = "none"
            /\ test' = IF counted.s.panic THEN [test EXCEPT !.op = "panic"]
                       ELSE [test EXCEPT !.op = "exit", !.count = counted.n])

NextReach == LoadModel \/ RunIteration \/ RunExit

SpecReach == InitReach /\ [][NextReach]_vars

\* A step of the driver can be taken: the file is still to be read, or the
\* loop is to be left, or it has an iteration to go that is followed.
CanStep ==
    ~panicked /\
    (\/ test.op \in {"file", "system"}
     \/ test.op = "loop" /\ (test.todo.index = empty_set \/ test.iteration < MaxIterations))

\* run with every step of it taken in the end: WF_vars(NextReach), with
\* ENABLED <<NextReach>>_vars written as the state predicate CanStep.
FairSpecReach == SpecReach /\ ([]<>(~CanStep) \/ []<><<NextReach>>_vars)

\* The order of the vectors of one length, by their first different value.
RECURSIVE VectorLeq(_, _)
VectorLeq(x, y) ==
    \/ x = <<>>
    \/ Head(x) < Head(y)
    \/ Head(x) = Head(y) /\ VectorLeq(Tail(x), Tail(y))

\* The elements of a set of vectors as a list, the smallest first.
RECURSIVE Listed(_)
Listed(V) ==
    IF V = {} THEN <<>>
    ELSE LET m == CHOOSE x \in V : \A y \in V : VectorLeq(x, y)
         IN <<m>> \o Listed(V \ {m})

\* A transition system handed to the loop: an initial set of vectors of
\* length n and transition groups.
InitLoop ==
    /\ StorageNew
    /\ \E k \in 1..MaxLen : \E V \in SetsUpTo(VectorsOf(k), MaxInitial) :
       \E g \in 0..MaxGroups : \E groups \in [1..g -> FileGroups(k)] :
           /\ FileIndices(groups) <= MaxFileIndices
           /\ test = [NoReach EXCEPT !.op = "system", !.n = k, !.initial = V,
                                     !.groups = groups]

\* The transitions for the groups from group i on, built as
\* tests::random_relational_product builds its relation and its meta.
RECURSIVE SystemTransitions(_, _, _, _)
SystemTransitions(s, groups, i, transitions) ==
    IF Stopped(s) \/ i > Len(groups) THEN [s |-> s, transitions |-> transitions]
    ELSE Then(from_iter(s, Listed(groups[i].relation)), LAMBDA rel :
         Then(compute_meta(rel.s, groups[i].read, groups[i].write), LAMBDA meta :
              SystemTransitions(meta.s, groups, i + 1,
                                Append(transitions, [relation |-> rel.h, meta |-> meta.h]))))

\* The loop of run is entered with the LDD of the initial set and a relation
\* and a compute_meta for every group.
EnterLoop ==
    /\ test.op = "system"
    /\ Then(from_iter(TestStore, Listed(test.initial)), LAMBDA initial_state :
       Then(SystemTransitions(initial_state.s, test.groups, 1, <<>>), LAMBDA system :
       Then(Ldd_new(system.s, initial_state.h.index), LAMBDA todo :
            Observed(todo.s,
                     {todo.h, initial_state.h}
                         \cup {system.transitions[i].relation : i \in DOMAIN system.transitions}
                         \cup {system.transitions[i].meta : i \in DOMAIN system.transitions},
                     IF todo.s.panic THEN [test EXCEPT !.op = "panic"]
                     ELSE [test EXCEPT !.op = "loop", !.todo = todo.h,
                                       !.states = initial_state.h,
                                       !.transitions = system.transitions,
                                       !.before = Denote(todo.s.table,
                                                         initial_state.h.index, OpFuel),
                                       !.previous = {}]))))

NextLoop == EnterLoop \/ RunIteration \/ RunExit

SpecLoop == InitLoop /\ [][NextLoop]_vars

\* The loop with every step of it taken in the end: WF_vars(NextLoop), with
\* ENABLED <<NextLoop>>_vars written as the state predicate CanStep.
FairSpecLoop == SpecLoop /\ ([]<>(~CanStep) \/ []<><<NextLoop>>_vars)

\* The four operations of the kernel on one input: project and
\* relational_product for every input, union and minus where the vectors of
\* the relation are as long as those of the set.
NextKernel ==
    \/ Len(test.read) + Len(test.write) = test.n /\ TestUnion
    \/ Len(test.read) + Len(test.write) = test.n /\ TestMinus
    \/ TestProject
    \/ TestRelationalProduct

SpecKernel == InitRelation /\ [][NextKernel]_vars

NextPairs == TestUnion \/ TestMinus

SpecPairs == InitPairs /\ [][NextPairs]_vars

NextMembers ==
    TestElementOf \/ TestLen \/ TestSingleton \/ TestIter \/ TestLaws

SpecMembers == InitMembers /\ [][NextMembers]_vars

\* The set a test denotes by identity n.
TestSetOf(n) == Denote(table, n, OpFuel)


\* The result of union denotes the union of the two sets.
UnionDenotes ==
    test.op = "union" =>
        /\ ~panicked
        /\ TestSetOf(test.result) = Range(test.A) \cup Range(test.B)

\* C16: union(ldd(A), ldd(B)) denotes A \cup B and is the same identity as
\* ldd(A \cup B) built independently.
C16UnionIsTheSetUnion ==
    UnionDenotes /\ (test.op = "union" => test.result = test.expected)

\* The result of minus denotes the difference of the two sets.
MinusDenotes ==
    test.op = "minus" =>
        /\ ~panicked
        /\ TestSetOf(test.result) = Range(test.A) \ Range(test.B)

\* C17: minus(ldd(A), ldd(B)) denotes A \ B and is the same identity as
\* ldd(A \ B) built independently.
C17MinusIsTheSetDifference ==
    MinusDenotes /\ (test.op = "minus" => test.result = test.expected)

\* C18: element_of(v, ldd(A)) is true exactly where v is in A, so false for
\* every v shorter or longer than the vectors of A, and for the empty vector
\* true only where the LDD is 'true'.
C18ElementOfIsMembership ==
    test.op = "element_of" =>
        /\ ~panicked
        /\ TestSetOf(test.result) = Range(test.A)
        /\ test.b <=> test.v \in Range(test.A)
        /\ test.v = <<>> => (test.b <=> test.result = empty_vector)

\* element_of found a vector of length two in a set of three.
C18Witness ==
    /\ test.op = "element_of"
    /\ test.b
    /\ Len(test.v) = 2
    /\ Len(test.A) = 3

\* C19: len(ldd(A)) is the number of vectors of A; len('false') is 0 and
\* len('true') is 1.
C19LenIsCardinality ==
    test.op = "len" =>
        /\ ~panicked
        /\ test.n = Cardinality(Range(test.A))
        /\ test.result = empty_set => test.n = 0
        /\ test.result = empty_vector => test.n = 1

\* len counted a set of three vectors of length two, two of them with the
\* same first value.
C19Witness ==
    /\ test.op = "len"
    /\ test.n = 3
    /\ Len(test.A) = 3
    /\ \A i \in DOMAIN test.A : Len(test.A[i]) = 2

\* C20: singleton(v) denotes {v}: it is 'true' for the empty vector and
\* otherwise a chain of len(v) nodes down, each with right 'false'; the
\* iteration over it yields one vector, v, and then ends.
C20SingletonRoundTrip ==
    test.op = "singleton" =>
        /\ ~panicked
        /\ TestSetOf(test.result) = {test.v}
        /\ test.v = <<>> => test.result = empty_vector
        /\ ChainValues(table, test.result, OpFuel) = test.v
        /\ test.out = <<test.v>>

\* The round trip for the vectors that are not empty.
SingletonRoundTripNotEmpty ==
    (test.op = "singleton" /\ test.v # <<>>) =>
        /\ ~panicked
        /\ TestSetOf(test.result) = {test.v}
        /\ ChainValues(table, test.result, OpFuel) = test.v
        /\ test.out = <<test.v>>


\* The iteration over an LDD other than 'true' yields the vectors of the set,
\* each once.
IterExactButTrue ==
    (test.op = "iter" /\ test.result # empty_vector) =>
        /\ ~panicked
        /\ Range(test.out) = TestSetOf(test.result)
        /\ Len(test.out) = Cardinality(Range(test.out))
        /\ Len(test.out) = test.n

\* C21: for every canonical LDD l, 'false' and 'true' included, iter(l)
\* ends and yields every vector of [[l]] exactly once and no other, so the
\* number of items is len(l).
C21IterationIsExact ==
    test.op = "iter" =>
        /\ ~panicked
        /\ TestSetOf(test.result) = Range(test.A)
        /\ Range(test.out) = TestSetOf(test.result)
        /\ Len(test.out) = Cardinality(Range(test.out))
        /\ Len(test.out) = test.n


\* C30: union(x, x), union(x, 'false'), union('false', x) and minus(x, 'false')
\* return the identity of x, minus(x, x) and minus('false', x) return
\* 'false', and none of the six calls inserts a node.
C30IdentityLaws ==
    test.op = "laws" =>
        /\ ~panicked
        /\ test.out = <<test.result, test.result, test.result, test.result,
                        empty_set, empty_set>>
        /\ test.b

\* The laws were applied to an LDD of three vectors of length two.
C30Witness ==
    /\ test.op = "laws"
    /\ Len(test.A) = 3
    /\ test.result > empty_vector
    /\ Cardinality(TestSetOf(test.result)) = 3
    /\ Len(test.out) = 6


\* The largest element of a set of indices that is not empty.
Max(S) == CHOOSE m \in S : \A i \in S : i <= m

\* The chain of values down from n, as far as it has no branch.
TestChain(n) == ChainValues(table, n, MaxNodes)

\* The guide of a projection onto the indices I: a 1 at the levels of I, a 0
\* at the others up to the largest.
ProjGuide(I) ==
    IF I = {} THEN <<>> ELSE [k \in 1..Max(I) + 1 |-> IF k - 1 \in I THEN 1 ELSE 0]

\* compute_proj returns the chain of the guide, 'true' for no indices.
ComputeProjChain ==
    test.op = "compute_proj" =>
        /\ ~panicked
        /\ TestChain(test.result) = ProjGuide(Range(test.read))
        /\ TestChain(test.expected) = ProjGuide(Range(test.write))
        /\ test.read = <<>> => test.result = empty_vector

\* C24: compute_proj(indices) is a chain without branches of max(indices)+1
\* nodes whose i-th value is 1 where i is among the indices and 0 elsewhere,
\* 'true' for no indices, and the same identity for any reordering or
\* duplication of the same indices.
C24ComputeProj ==
    /\ ComputeProjChain
    /\ (test.op = "compute_proj" /\ Range(test.read) = Range(test.write)) =>
           test.result = test.expected

\* The tags of level i for the sets R and W of read and written indices.
LevelTags(R, W, i) ==
    IF i \in R \cap W THEN <<3, 4>>
    ELSE IF i \in R THEN <<1>>
    ELSE IF i \in W THEN <<2>>
    ELSE <<0>>

\* The tags of the levels 0..n, in order.
RECURSIVE TagsUpTo(_, _, _)
TagsUpTo(R, W, n) ==
    IF n < 0 THEN <<>> ELSE TagsUpTo(R, W, n - 1) \o LevelTags(R, W, n)

\* C25: compute_meta(read, write) is a chain without branches that holds, for
\* each level from 0 to max(read \cup write), the tags 3 then 4 where the
\* level is read and written, 1 where only read, 2 where only written and 0
\* otherwise; it is max(read \cup write)+1 plus the number of levels both
\* read and written long.
C25ComputeMeta ==
    test.op = "compute_meta" =>
        LET R == Range(test.read)
            W == Range(test.write)
        IN /\ ~panicked
           /\ R \cup W = {} => test.result = empty_vector
           /\ R \cup W # {} =>
                  /\ TestChain(test.result) = TagsUpTo(R, W, Max(R \cup W))
                  /\ Len(TestChain(test.result))
                         = Max(R \cup W) + 1 + Cardinality(R \cap W)

\* compute_meta made the guide of a level read and written below a level
\* only written.
C25Witness ==
    /\ test.op = "compute_meta"
    /\ TestChain(test.result) = <<2, 3, 4>>


\* The vectors of A restricted to the indices of the test.
Projected == {project_vector(v, test.read) : v \in Range(test.A)}

\* project denotes the projection of the set, unless the set and the list
\* of indices are both empty.
ProjectDenotes ==
    (test.op = "project" /\ (test.A # <<>> \/ test.read # <<>>)) =>
        /\ ~panicked
        /\ TestSetOf(test.result) = Projected
        /\ TestSetOf(test.expected) = Projected

\* C22: project(ldd(A), compute_proj(I)) denotes the vectors of A restricted
\* to I, for the empty set and the empty I too, and is the identity of the
\* LDD of that set.
C22ProjectIsTheProjection ==
    test.op = "project" =>
        /\ ~panicked
        /\ TestSetOf(test.result) = Projected
        /\ test.result = test.expected

\* project('false', spec) is 'false' for every spec but 'true'.
ProjectOfFalse ==
    (test.op = "project" /\ test.A = <<>> /\ test.read # <<>>) =>
        ~panicked /\ test.result = empty_set

\* C23: project('false', spec) is 'false' for every spec, the spec 'true' of
\* the empty list of indices included.
C23ProjectOfFalseIsFalse ==
    (test.op = "project" /\ test.A = <<>>) => ~panicked /\ test.result = empty_set

\* The projection of the read-only product denotes what the relation denotes.
ReadOnlyDenotes ==
    test.op = "readonly" =>
        ~panicked /\ TestSetOf(test.result) = TestSetOf(test.expected)

\* C27: with rel = project(S, compute_proj(read)), the projection onto read of
\* relational_product(S, rel, compute_meta(read, [])) is the identity of rel.
C27ReadOnlyLaw ==
    ReadOnlyDenotes /\ (test.op = "readonly" => test.result = test.expected)

\* The projection of the write-only product denotes what the relation
\* denotes.
WriteOnlyDenotes ==
    test.op = "writeonly" =>
        ~panicked /\ TestSetOf(test.result) = TestSetOf(test.expected)

\* C28: with rel = project(S, compute_proj(write)), the projection onto write
\* of relational_product(S, rel, compute_meta([], write)) is the identity of
\* rel.
C28WriteOnlyLaw ==
    WriteOnlyDenotes /\ (test.op = "writeonly" => test.result = test.expected)


\* The places of the read and of the write values in a vector of the relation.
RelProj == RelProjLoop(test.read, test.write, 0, test.n, 0, <<>>, <<>>)

\* x[write_proj := y']
Written(x, y_prime) ==
    [j \in DOMAIN x |->
        IF \E i \in DOMAIN test.write : test.write[i] = j - 1
        THEN y_prime[CHOOSE i \in DOMAIN test.write : test.write[i] = j - 1]
        ELSE x[j]]

\* { x[write_proj := y'] | project(x, read_proj) = x' and (x', y') in R and
\* x in S } for the set A and the relation B of the test.
ExpectedProduct ==
    {Written(p[1], project_vector(p[2], RelProj.write)) :
        p \in {q \in Range(test.A) \X Range(test.B) :
                  project_vector(q[1], test.read) = project_vector(q[2], RelProj.read)}}

\* relational_product denotes the expected set, unless no index is read or
\* written and the relation is empty.
RelationalProductDenotes ==
    (test.op = "product" /\ ~(test.read = <<>> /\ test.write = <<>> /\ test.B = <<>>)) =>
        ~panicked /\ TestSetOf(test.result) = ExpectedProduct

\* C26: relational_product(ldd(S), ldd(R), compute_meta(read, write)) denotes
\* exactly the vectors x[write := y'] with x in S, (x', y') in R and x
\* restricted to read equal to x'.
C26RelationalProductSemantics ==
    test.op = "product" => ~panicked /\ TestSetOf(test.result) = ExpectedProduct

GroupImage(X, g, n) ==
    LET rel_proj == RelProjLoop(g.read, g.write, 0, n, 0, <<>>, <<>>)
    IN {[j \in 1..n |->
            IF Contains(g.write, j - 1)
            THEN project_vector(p[2], rel_proj.write)[
                     CHOOSE i \in DOMAIN g.write : g.write[i] = j - 1]
            ELSE p[1][j]] :
           p \in {q \in X \X g.relation :
                     project_vector(q[1], g.read) = project_vector(q[2], rel_proj.read)}}

\* The vectors reachable from X by the transition groups of the file.
RECURSIVE ReachableVectors(_)
ReachableVectors(X) ==
    LET N == X \cup UNION {GroupImage(X, test.groups[i], test.n) : i \in DOMAIN test.groups}
    IN IF N = X THEN X ELSE ReachableVectors(N)

\* The loader gives every transition group a meta of zeros, one for every
\* level below the largest index of the group.
LoaderMetaIsZeros ==
    test.op \in {"loop", "exit"} =>
        \A i \in DOMAIN test.transitions :
            TestChain(test.transitions[i].meta.index) =
                [k \in 1..MetaLength(test.groups[i].read, test.groups[i].write) |-> 0]

\* C33: the meta of every transition group the loader produces is
\* compute_meta(read, write) of the read and write indices of the group.
C33MetaIsComputeMeta ==
    test.op \in {"loop", "exit"} =>
        \A i \in DOMAIN test.transitions :
            TestChain(test.transitions[i].meta.index) =
                MetaTags(test.groups[i].read, test.groups[i].write, 0,
                         GuideLength(test.groups[i].read \o test.groups[i].write))

\* In every iteration todo is a subset of states and disjoint from what
\* states was before the iteration.
TodoIsNew ==
    (test.op = "loop" /\ test.iteration > 0) =>
        /\ TestSetOf(test.todo.index) \subseteq test.before
        /\ TestSetOf(test.todo.index) \cap test.previous = {}
        /\ test.before = TestSetOf(test.states.index)

\* With the metas of the loader the loop is left after one iteration, with
\* the initial states.
ExitWithInitial ==
    test.op = "exit" =>
        /\ test.iteration = 1
        /\ TestSetOf(test.states.index) = test.initial
        /\ test.count = Cardinality(test.initial)

\* C31: when the loop of run is left, states denotes the vectors reachable
\* from the initial state through the transitions, and in every iteration
\* todo is a subset of states and disjoint from what states was before.
C31ReachabilityResult ==
    /\ TodoIsNew
    /\ test.op = "exit" =>
          TestSetOf(test.states.index) = ReachableVectors(test.initial)


\* Left with the metas of compute_meta, the loop has found the vectors
\* reachable from the initial set, and in every iteration todo is new.
LoopResult ==
    /\ TodoIsNew
    /\ test.op = "exit" =>
          /\ TestSetOf(test.states.index) = ReachableVectors(test.initial)
          /\ test.count = Cardinality(ReachableVectors(test.initial))

\* Every iteration but the last makes states strictly larger.
StatesGrow ==
    [][(test.op = "loop" /\ test'.op = "loop" /\ test'.iteration # test.iteration
           /\ test'.todo.index # empty_set)
          => (test.before \subseteq test'.before /\ test.before # test'.before)]_vars

\* C32: the loop of run reaches todo = 'false' and is left, and states
\* grows strictly in every iteration except the last.
C32RunTerminates ==
    /\ (test.op = "loop") ~> (test.op = "exit")
    /\ StatesGrow

\* The loop has been left after more than one iteration that found new
\* vectors.
C32Witness == test.op = "exit" /\ test.iteration > 2


\* The slots met on the node freelist from slot i on, in order, up to the
\* first slot `stop` that was met before or is no slot of the table.
RECURSIVE FreeWalk(_, _, _)
FreeWalk(t, i, walk) ==
    IF i \in Range(walk) \/ i \notin Indices(t) THEN [walk |-> walk, stop |-> i]
    ELSE FreeWalk(t, At(t, i).right, Append(walk, i))

\* C34: the node freelist from `free` through the right fields visits only
\* unfilled slots, each once, ends at a slot that points to itself and covers
\* every unfilled slot, so that the slot the next insert writes is not filled.
C34FreeListWellFormed ==
    LET unfilled == {i \in Indices(table) : ~is_valid(table, i)}
    IN IF free = None THEN unfilled = {}
       ELSE /\ ~is_valid(table, free)
            /\ Range(FreeWalk(table, free, <<>>).walk) = unfilled
            /\ FreeWalk(table, free, <<>>).stop =
                   FreeWalk(table, free, <<>>).walk[Len(FreeWalk(table, free, <<>>).walk)]


\* The handle h names a canonical LDD: every node reachable from it is in a
\* filled slot and satisfies I1-I4.
CanonicalInput(h) ==
    \A n \in ReachableFrom(table, {IndexOf(h)}) \ {empty_set, empty_vector} :
        /\ is_valid(table, n)
        /\ ~ViolatesI1toI4(table, At(table, n).value, At(table, n).down, At(table, n).right)

\* The step is a call of union, minus, project or relational_product on
\* canonical inputs within the contract of the operation.
OperationOnCanonical ==
    \/ \E a, b \in handles :
          CanonicalInput(a) /\ CanonicalInput(b) /\ (Union(a, b) \/ Minus(a, b))
    \/ \E a, p \in handles : CanonicalInput(a) /\ CanonicalInput(p) /\ Project(a, p)
    \/ \E a, r, m \in handles :
          /\ CanonicalInput(a) /\ CanonicalInput(r) /\ CanonicalInput(m)
          /\ RelationalProduct(a, r, m)

\* No call of one of the four operations on canonical inputs aborts in the
\* client of the operations, collections by the client in between included.
OperationsNeverAbort ==
    [][(debug /\ ~panicked /\ panicked') => ~OperationOnCanonical]_vars

\* C35: union, minus, project and relational_product on canonical inputs of
\* matching height never pass insert a triple that breaks I1-I4 and never
\* call get on a terminal: in a debug build, where both abort, the call
\* returns, and no call inspects a slot that is not filled or passes one on.
C35NoRuntimeFailure ==
    (debug /\ test.op \in {"union", "minus", "project", "product"}) =>
        ~panicked /\ ~flags.read_freed /\ ~flags.insert_freed

\* A debug build has returned from relational_product for a set and a
\* relation of two vectors each and indices that are read and written.
C35Witness ==
    /\ debug
    /\ ~panicked
    /\ test.op = "product"
    /\ Len(test.A) = MaxRelSet
    /\ Len(test.B) = MaxRelSet
    /\ test.read # <<>>
    /\ test.write # <<>>
    /\ test.result # empty_set

\* ------------------------------------------------------ cache transparency

\* The clones `a.clone(), b.clone()` a cached binary operator is called with.
Clones(a, b, F(_, _, _)) ==
    Then(Ldd_new(Store, IndexOf(a)), LAMBDA ca :
    Then(Ldd_new(ca.s, IndexOf(b)), LAMBDA cb : F(cb.s, ca.h, cb.h)))

\* Both calls return, and return the same identity.
SameIdentity(memoized, plain) ==
    (~Stopped(memoized.s) /\ ~Stopped(plain.s)) => memoized.h.index = plain.h.index

\* The memoized call of operator on the handles a and b returns the identity
\* the function itself returns on them in the same store.
BinaryTransparent(operator, a, b) ==
    SameIdentity(Clones(a, b, LAMBDA s, ca, cb : cache_binary_op(s, operator, ca, cb)),
                 Clones(a, b, LAMBDA s, ca, cb :
                            IF operator = "union" THEN union(s, ca.index, cb.index, OpFuel)
                            ELSE minus(s, ca.index, cb.index, OpFuel)))

\* The memoized len of the handle a is the len of a in the same store.
UnaryTransparent(a) ==
    LET memoized == cache_unary_function(Store, IndexOf(a))
        plain == len(Store, IndexOf(a), OpFuel)
    IN (~Stopped(memoized.s) /\ ~Stopped(plain.s)) => memoized.n = plain.n

\* The cache of operator has an entry for the operands a and b.
Cached(operator, a, b) ==
    \E e \in cache[operator] : e[1] = <<IndexOf(a), IndexOf(b)>>

\* C36: cache transparency. In every state the client of the cached operations
\* reaches, a memoized call that hits the cache returns the identity (for
\* len: the number) that the function it wraps returns on the same operands
\* in the same store; on a miss the memoized call is the call of the function.
C36CacheTransparency ==
    (~panicked /\ ~flags.misused) =>
        /\ \A a \in handles :
               (\E e \in cache.c1 : e[1] = IndexOf(a)) => UnaryTransparent(a)
        /\ \A a, b \in handles : \A operator \in {"union", "minus"} :
               Cached(operator, a, b) => BinaryTransparent(operator, a, b)

\* ------------------------------------------------- the commutative cache key

\* cache_comm_binary_op(storage, Union, a.clone(), b.clone(), union)
CommUnion(a, b) ==
    Clones(a, b, LAMBDA s, ca, cb : cache_comm_binary_op(s, "union", ca, cb))

\* The same call in the store the call `first` has left.
CommUnionAfter(first, a, b) ==
    Then(Ldd_new(first.s, IndexOf(a)), LAMBDA ca :
    Then(Ldd_new(ca.s, IndexOf(b)), LAMBDA cb :
         cache_comm_binary_op(cb.s, "union", ca.h, cb.h)))

\* The call on (a, b) and the call on (b, a) use one key, the smaller
\* identity first, and return one identity: both computed in the same store,
\* and the second served from the entry the first has stored.
OneKey(a, b) ==
    LET ab == CommUnion(a, b)
        ba == CommUnion(b, a)
        again == CommUnionAfter(ab, b, a)
        key == IF IndexOf(a) < IndexOf(b) THEN <<IndexOf(a), IndexOf(b)>>
               ELSE <<IndexOf(b), IndexOf(a)>>
    IN (~Stopped(ab.s) /\ ~Stopped(ba.s)) =>
           /\ ab.h.index = ba.h.index
           /\ ab.s.cache = ba.s.cache
           /\ <<key, ab.h.index>> \in ab.s.cache.union
           /\ ~Stopped(again.s) /\ again.h.index = ab.h.index
           /\ again.s.cache = ab.s.cache

Counts == 0..InitialCount

\* When collections fire in a run: automatic collection enabled or not (the
\* reference run has it disabled), the counter the store starts with, and a
\* garbage_collect() of the caller between building the operands and calling
\* the operation.
Timings ==
    {t \in [enabled : BOOLEAN, count : Counts, collect : BOOLEAN] :
        ~t.enabled => t.count = InitialCount}

Reference == [enabled |-> FALSE, count |-> InitialCount, collect |-> FALSE]

\* The inputs of a timed run: a set and a relation as InitRelation draws them,
\* each iterated in the order of its vectors.
NoTiming == [op |-> "input", A |-> <<>>, B |-> <<>>, n |-> 0, read |-> <<>>,
             write |-> <<>>, timing |-> Reference, result |-> empty_set,
             reference |-> {}, aborted |-> FALSE]

InitTiming ==
    /\ StorageNew
    /\ \E k \in 0..MaxLen : \E A \in SetsUpTo(VectorsOf(k), MaxRelSet) :
       \E R, W \in SUBSET (0..k - 1) :
       \E B \in SetsUpTo(VectorsOf(Cardinality(R) + Cardinality(W)), MaxRelSet) :
           test = [NoTiming EXCEPT !.A = Listed(A), !.B = Listed(B), !.n = k,
                                   !.read = Sorted(R), !.write = Sorted(W)]

\* The call of the operation on the operands a and b, the meta m and the
\* projection p.
Operate(op, s, a, b, m, p) ==
    CASE op = "union" -> union(s, a.index, b.index, OpFuel)
      [] op = "minus" -> minus(s, a.index, b.index, OpFuel)
      [] op = "project" -> project(s, a.index, p.index, OpFuel)
      [] op = "product" -> relational_product(s, a.index, b.index, m.index, MaxNodes)

\* One run: storage.enable_garbage_collection(enabled), the operands built
\* with from_iter, compute_meta and compute_proj, and the operation.
TimedRun(op, timing) ==
    Then(from_iter([TestStore EXCEPT !.enable = timing.enabled, !.count = timing.count],
                   test.A), LAMBDA a :
    Then(from_iter(a.s, test.B), LAMBDA b :
    Then(compute_meta(b.s, test.read, test.write), LAMBDA m :
    Then(compute_proj(m.s, test.read), LAMBDA p :
    Then(Operate(op, IF timing.collect THEN garbage_collect(p.s) ELSE p.s,
                 a.h, b.h, m.h, p.h), LAMBDA result :
         [s |-> result.s, h |-> result.h,
          held |-> {a.h.root, b.h.root, m.h.root, p.h.root, result.h.root}])))))

\* The run of op under some timing, next to the reference run on the same
\* inputs.
Timed(op) ==
    /\ test.op = "input"
    /\ Then(TimedRun(op, Reference), LAMBDA ref :
           \E timing \in Timings :
           Then(TimedRun(op, timing), LAMBDA run :
                /\ ~run.s.ovf /\ ~ref.s.ovf
                /\ Commit(run.s)
                /\ handles' = IF run.s.panic THEN handles ELSE run.held
                /\ last' = "none"
                /\ test' = [test EXCEPT !.op = op, !.timing = timing,
                                        !.result = run.h.index,
                                        !.aborted = ref.s.panic,
                                        !.reference = IF ref.s.panic THEN {}
                                                      ELSE Denote(ref.s.table, ref.h.index,
                                                                  OpFuel)]))

TimedUnion == Len(test.read) = test.n /\ test.write = <<>> /\ Timed("union")

TimedMinus == Len(test.read) = test.n /\ test.write = <<>> /\ Timed("minus")

TimedProject == test.B = <<>> /\ test.write = <<>> /\ Timed("project")

TimedRelationalProduct == Timed("product")

NextTiming == TimedUnion \/ TimedMinus \/ TimedProject \/ TimedRelationalProduct

SpecTiming == InitTiming /\ [][NextTiming]_vars

\* A run ends as the reference run ends, and its result denotes the set the
\* result of the reference run denotes.
SameAsReference ==
    /\ panicked = test.aborted
    /\ ~panicked => TestSetOf(test.result) = test.reference

\* With automatic collections only, enabled or not and whatever the counter,
\* every run is as the reference run.
AutomaticTimingKeepsResult ==
    (test.op # "input" /\ ~test.timing.collect) => SameAsReference

\* C38: determinism under the timing of the collections. The set the result
\* of union, minus, project and relational_product denotes is the one of the
\* run without collections, whether and whenever a collection fires.
C38SameResultUnderAnyTiming == test.op # "input" => SameAsReference

\* ------------------------------------------------ inspection by reference

\* The calls that inspect one node.
Inspections == {"value", "down", "right", "get"}

\* storage.value, storage.down, storage.right and storage.get on a reference
\* to slot n: the store after the call, what the call returns and the root
\* slots of the handles it returns.
Inspection(f, n) ==
    IF f = "value"
    THEN [s |-> IF debug /\ ~verify_ldd(Store, n) THEN Panic(Store)
                ELSE [Store EXCEPT !.read_freed = @ \/ ~is_valid(table, n)],
          out |-> <<At(table, n).value>>, held |-> {}]
    ELSE Then(get(Store, n), LAMBDA g :
              IF f = "down"
              THEN [s |-> Ldd_drop(g.s, g.right), out |-> <<g.down.index>>,
                    held |-> {g.down.root}]
              ELSE IF f = "right"
              THEN [s |-> Ldd_drop(g.s, g.down), out |-> <<g.right.index>>,
                    held |-> {g.right.root}]
              ELSE [s |-> g.s, out |-> <<g.value, g.down.index, g.right.index>>,
                    held |-> {g.down.root, g.right.root}])

\* The call f on a reference to slot n; test tells what it returned.
InspectRef(f, n) ==
    /\ CanHold(2)
    /\ Then(Inspection(f, n), LAMBDA r :
            /\ Commit(r.s)
            /\ handles' = IF r.s.panic THEN handles ELSE handles \cup r.held
            /\ last' = "none"
            /\ test' = [NoTest EXCEPT !.op = f, !.n = n,
                                      !.out = IF r.s.panic THEN <<>> ELSE r.out])

\* A client that builds sets, drops them, collects and inspects any slot of
\* the table.
NextInspect ==
    \/ \E v \in Vectors : steps < MaxReadSteps /\ Singleton(v)
    \/ \E h \in handles : steps < MaxReadSteps /\ Drop(h)
    \/ steps < MaxReadSteps /\ GarbageCollect
    \/ \E f \in Inspections, n \in Indices(table) :
           steps < MaxReadSteps /\ InspectRef(f, n)

SpecInspect == Init /\ [][NextInspect]_vars

\* What f returns of the triple stored in slot n.
StoredPart(f, n) ==
    CASE f = "value" -> <<At(table, n).value>>
      [] f = "down" -> <<At(table, n).down>>
      [] f = "right" -> <<At(table, n).right>>
      [] f = "get" -> <<At(table, n).value, At(table, n).down, At(table, n).right>>

\* Slot n is a filled internal node.
FilledInternal(n) == n \notin {empty_set, empty_vector} /\ is_valid(table, n)

RECURSIVE print_node(_, _, _, _, _)
RECURSIVE ForRight(_, _, _, _, _, _, _, _)

\* The body of one of the three loops of print_node over iter_right(storage,
\* ldd), for the item g.
LoopBody(s, out, marked, ldd, g, part, depth) ==
    IF Stopped(s) THEN [s |-> s, out |-> out]
    ELSE IF part = "label"
    THEN [s |-> s, out |-> [out EXCEPT ![Len(out)][3] = Append(@, g.value)]]
    ELSE IF part = "edge"
    THEN IF g.down.index # empty_set /\ g.down.index # empty_vector
         THEN Then(get(s, g.down.index), LAMBDA d :
                   [s |-> Ldd_drop(Ldd_drop(d.s, d.down), d.right),
                    out |-> Append(out, <<"edge", ldd, g.value, g.down.index, d.value>>)])
         ELSE [s |-> s, out |-> out]
    ELSE print_node(s, out, marked, g.down.index, depth - 1)

\* `for Data(value, down, right) in iter_right(storage, ldd)`: IterRight::next
\* from `current` on, the body for every item, and the drop of the iterator.
ForRight(s, out, marked, ldd, current, part, depth, fuel) ==
    IF Stopped(s) THEN [s |-> s, out |-> out]
    ELSE IF fuel = 0 THEN [s |-> Panic(s), out |-> out]
    ELSE IF current.index = empty_set THEN [s |-> Ldd_drop(s, current), out |-> out]
    ELSE Then(get(s, current.index), LAMBDA g :
         Then(Ldd_new(g.s, g.right.index), LAMBDA c :
         Then(Ldd_drop(c.s, current), LAMBDA moved :
         Then(LoopBody(moved, out, marked, ldd, g, part, depth), LAMBDA b :
              ForRight(Ldd_drop(Ldd_drop(b.s, g.down), g.right), b.out, marked, ldd,
                       c.h, part, depth, fuel - 1)))))

\* format::print_node; nothing is ever put into `marked`.
print_node(s, out, marked, ldd, depth) ==
    IF Stopped(s) \/ ldd \in marked \/ ldd = empty_set \/ ldd = empty_vector
    THEN [s |-> s, out |-> out]
    ELSE IF depth = 0 THEN [s |-> Panic(s), out |-> out]
    ELSE Then(Ldd_new(s, ldd), LAMBDA c1 :
         Then(ForRight(c1.s, Append(out, <<"record", ldd, <<>>>>), marked, ldd, c1.h,
                       "label", depth, OpFuel), LAMBDA labels :
         Then(Ldd_new(labels.s, ldd), LAMBDA c2 :
         Then(ForRight(c2.s, labels.out, marked, ldd, c2.h, "edge", depth, OpFuel),
              LAMBDA edges :
         Then(Ldd_new(edges.s, ldd), LAMBDA c3 :
              ForRight(c3.s, edges.out, marked, ldd, c3.h, "node", depth, OpFuel))))))

\* format::print_dot
print_dot(s, ldd) ==
    IF ldd = empty_set \/ ldd = empty_vector
    THEN [s |-> s, out |-> <<<<"terminal", ldd>>>>]
    ELSE print_node(s, <<>>, {}, ldd, OpFuel)

\* print_dot(&storage, &mut f, &h); test tells what was written, and n that
\* it was written in the step before.
PrintDot(h) ==
    /\ CanCall
    /\ Then(print_dot(Store, IndexOf(h)), LAMBDA p :
            /\ Commit(p.s)
            /\ handles' = handles
            /\ last' = "none"
            /\ test' = [NoTest EXCEPT !.op = "print_dot", !.result = IndexOf(h),
                                      !.n = steps + 1, !.out = p.out])

\* A client that builds LDDs node by node and prints them.
NextDot ==
    \/ \E v \in Values, d, r \in Args : Insert(v, d, r)
    \/ \E h \in handles : Drop(h)
    \/ \E h \in Args : PrintDot(h)

SpecDot == Init /\ [][NextDot]_vars

\* The nodes of the level that starts at n: n and its right siblings.
RECURSIVE Level(_, _, _)
Level(t, n, fuel) ==
    IF n = empty_set \/ n = empty_vector \/ fuel = 0 THEN {}
    ELSE {n} \cup Level(t, At(t, n).right, fuel - 1)

\* The level heads reachable from n: n, and the heads reachable from the down
\* of every node of its level.
RECURSIVE LevelHeads(_, _, _)
LevelHeads(t, n, fuel) ==
    IF n = empty_set \/ n = empty_vector \/ fuel = 0 THEN {}
    ELSE {n} \cup UNION {LevelHeads(t, At(t, m).down, fuel - 1) : m \in Level(t, n, Len(t))}

\* print_dot has just returned.
Printed == test.op = "print_dot" /\ test.n = steps /\ ~panicked

\* The lines of the output that are the record of node n.
RecordsOf(out, n) == {i \in DOMAIN out : out[i][1] = "record" /\ out[i][2] = n}

\* C40: print_dot writes the record of every level head reachable from the
\* root exactly once, and a terminal only where the root is 'false' or
\* 'true'.
C40EveryLevelHeadOnce ==
    Printed =>
        IF test.result \in {empty_set, empty_vector}
        THEN test.out = <<<<"terminal", test.result>>>>
        ELSE /\ \A i \in DOMAIN test.out : test.out[i][1] # "terminal"
             /\ \A n \in LevelHeads(table, test.result, Len(table)) :
                    Cardinality(RecordsOf(test.out, n)) = 1

\* Every level head reachable from the root has a record, the records are of
\* such heads, and a terminal is written only for a root 'false' or 'true'.
EveryLevelHeadPrinted ==
    Printed =>
        IF test.result \in {empty_set, empty_vector}
        THEN test.out = <<<<"terminal", test.result>>>>
        ELSE /\ \A i \in DOMAIN test.out : test.out[i][1] # "terminal"
             /\ \A n \in LevelHeads(table, test.result, Len(table)) :
                    RecordsOf(test.out, n) # {}
             /\ \A i \in DOMAIN test.out :
                    test.out[i][1] = "record" =>
                        test.out[i][2] \in LevelHeads(table, test.result, Len(table))

====
